---- MODULE Spec2Model ----
(***************************************************************************)
(* The experiment loops of the Week1 chi-square notebooks                  *)
(*   Week1/original/ChiSquareTest/AnalyticalLinearFit_original.ipynb       *)
(*   Week1/original/ChiSquareTest/ChiSquareTest_original.ipynb             *)
(* as a state machine: program settings, the seeded global random source,  *)
(* the data generation, the analytical straight-line fit, the chi-square   *)
(* evaluation, the numerical (Minuit) fit and the filling of the result    *)
(* arrays.                                                                 *)
(*                                                                         *)
(* Numbers.  numpy float64 values are modelled as binary floating-point    *)
(* numbers with a MantBits-bit significand, round-to-nearest-even, and the *)
(* IEEE special values NaN and +-Inf; the exponent range is not bounded    *)
(* and the sign of zero is not kept.  A value is a rational [n, d] in      *)
(* lowest terms; d = 0 encodes the special values.  Every arithmetic       *)
(* operation of the notebooks rounds its exact result, and carries a       *)
(* sticky "inexact" flag (ix) that records whether any rounding changed a  *)
(* value on the way, as the IEEE inexact status flag does.                 *)
(***************************************************************************)
EXTENDS Integers, Sequences, FiniteSets, TLC

(***************************************************************************)
(* Bounds of the model.                                                    *)
(***************************************************************************)
MantBits == 8        \* significand width of the modelled floating point
MaxNexp == 2         \* largest number of experiments explored
MaxNpoints == 3      \* largest number of points per dataset explored
MaxNdof == 3         \* largest number of degrees of freedom of a direct call of the tail probability
MaxSfCalls == 2      \* number of direct calls of the tail probability that are compared
StreamPeriod == 4    \* the random streams explored repeat after this many draws

(***************************************************************************)
(* Rational numbers with the IEEE special values.                          *)
(***************************************************************************)
Abs(i) == IF i < 0 THEN -i ELSE i

Sgn(i) == IF i < 0 THEN -1 ELSE IF i = 0 THEN 0 ELSE 1

Pow2(k) == 2^k

RECURSIVE GCD(_, _)
GCD(a, b) == IF b = 0 THEN a ELSE GCD(b, a % b)

Rat(n, d) ==
  IF d = 0 THEN [n |-> Sgn(n), d |-> 0]
  ELSE LET g == GCD(Abs(n), Abs(d))
       IN  [n |-> (Sgn(d) * n) \div g, d |-> Abs(d) \div g]

NaN == [n |-> 0, d |-> 0]

Inf == [n |-> 1, d |-> 0]

Zero == [n |-> 0, d |-> 1]

One == [n |-> 1, d |-> 1]

Unbound == [n |-> 0, d |-> -1]    \* a Python name that is not assigned yet

IsNaN(a) == a.d = 0 /\ a.n = 0

IsInf(a) == a.d = 0 /\ a.n # 0

IsFinite(a) == a.d > 0

RNeg(a) == [n |-> -a.n, d |-> a.d]

RAdd(a, b) ==
  IF IsNaN(a) \/ IsNaN(b) THEN NaN
  ELSE IF IsInf(a) /\ IsInf(b) THEN (IF a.n = b.n THEN a ELSE NaN)
  ELSE IF IsInf(a) THEN a
  ELSE IF IsInf(b) THEN b
  ELSE LET g == GCD(a.d, b.d)
       IN  Rat(a.n * (b.d \div g) + b.n * (a.d \div g), a.d * (b.d \div g))

RSub(a, b) == RAdd(a, RNeg(b))

RMul(a, b) ==
  IF IsNaN(a) \/ IsNaN(b) THEN NaN
  ELSE IF IsInf(a) \/ IsInf(b)
       THEN (IF a.n = 0 \/ b.n = 0 THEN NaN ELSE [n |-> Sgn(a.n) * Sgn(b.n), d |-> 0])
  ELSE Rat(a.n * b.n, a.d * b.d)

\* numpy true division: x/0 is +-inf (nan for 0/0) with a RuntimeWarning, never an exception
RDiv(a, b) ==
  IF IsNaN(a) \/ IsNaN(b) THEN NaN
  ELSE IF IsInf(a) THEN (IF IsInf(b) THEN NaN
                         ELSE [n |-> a.n * (IF b.n < 0 THEN -1 ELSE 1), d |-> 0])
  ELSE IF IsInf(b) THEN Zero
  ELSE IF b.n = 0 THEN [n |-> Sgn(a.n), d |-> 0]
  ELSE Rat(a.n * b.d * Sgn(b.n), a.d * Abs(b.n))

RLess(a, b) == IsFinite(a) /\ IsFinite(b) /\ a.n * b.d < b.n * a.d

RLeq(a, b) == IsFinite(a) /\ IsFinite(b) /\ a.n * b.d <= b.n * a.d

(***************************************************************************)
(* Rounding to the floating-point format: round to nearest, ties to even.  *)
(***************************************************************************)
RECURSIVE FlPos(_, _, _)
FlPos(n, d, e) ==     \* the value (n/d) * 2^e with n, d > 0
  IF n >= d * Pow2(MantBits) THEN FlPos(n, 2 * d, e + 1)
  ELSE IF n < d * Pow2(MantBits - 1) THEN FlPos(2 * n, d, e - 1)
  ELSE LET m  == n \div d
           r  == n - m * d
           mm == IF 2 * r > d \/ (2 * r = d /\ m % 2 = 1) THEN m + 1 ELSE m
       IN  IF e >= 0 THEN Rat(mm * Pow2(e), 1) ELSE Rat(mm, Pow2(-e))

Fl(q) ==
  IF q.d = 0 \/ q.n = 0 THEN q
  ELSE LET p == FlPos(Abs(q.n), q.d, 0)
       IN  IF q.n < 0 THEN RNeg(p) ELSE p

(***************************************************************************)
(* Floating-point values with the sticky inexact flag.                     *)
(***************************************************************************)
Lift(q) == [v |-> q, ix |-> FALSE]

Rnd(q, ix) == LET f == Fl(q) IN [v |-> f, ix |-> ix \/ f # q]

FromInt(i) == Rnd(Rat(i, 1), FALSE)

FAdd(a, b) == Rnd(RAdd(a.v, b.v), a.ix \/ b.ix)

FSub(a, b) == Rnd(RSub(a.v, b.v), a.ix \/ b.ix)

FMul(a, b) == Rnd(RMul(a.v, b.v), a.ix \/ b.ix)

FDiv(a, b) == Rnd(RDiv(a.v, b.v), a.ix \/ b.ix)

FSquare(a) == FMul(a, a)

\* np.sqrt, correctly rounded: the significand m with m <= sqrt(Q) < m + 1 is found by
\* bisection on Q = (n/d) scaled by a power of 4 into [4^(MantBits-1), 4^MantBits)
RECURSIVE ISqrt(_, _, _, _)
ISqrt(n, d, lo, hi) ==     \* largest m in lo..hi with m*m*d <= n
  IF lo = hi THEN lo
  ELSE LET mid == (lo + hi + 1) \div 2
       IN  IF mid * mid * d <= n THEN ISqrt(n, d, mid, hi) ELSE ISqrt(n, d, lo, mid - 1)

RECURSIVE SqrtPos(_, _, _)
SqrtPos(n, d, e) ==        \* sqrt(n/d) * 2^e with n, d > 0
  IF n >= d * Pow2(2 * MantBits) THEN SqrtPos(n, 4 * d, e + 1)
  ELSE IF n < d * Pow2(2 * MantBits - 2) THEN SqrtPos(4 * n, d, e - 1)
  ELSE LET m  == ISqrt(n, d, Pow2(MantBits - 1), Pow2(MantBits) - 1)
           up == (2 * m + 1) * (2 * m + 1) * d < 4 * n
                 \/ ((2 * m + 1) * (2 * m + 1) * d = 4 * n /\ m % 2 = 1)
           mm == IF up THEN m + 1 ELSE m
       IN  [v  |-> IF e >= 0 THEN Rat(mm * Pow2(e), 1) ELSE Rat(mm, Pow2(-e)),
            ix |-> mm * mm * d # n]

FSqrt(a) ==
  IF IsNaN(a.v) \/ (a.v.d = 0 /\ a.v.n < 0) \/ (a.v.d > 0 /\ a.v.n < 0) THEN [v |-> NaN, ix |-> a.ix]
  ELSE IF a.v.d = 0 \/ a.v.n = 0 THEN a
  ELSE LET r == SqrtPos(a.v.n, a.v.d, 0) IN [v |-> r.v, ix |-> a.ix \/ r.ix]

(***************************************************************************)
(* numpy array helpers.                                                    *)
(***************************************************************************)
Max(a, b) == IF a >= b THEN a ELSE b

\* np.sum of an integer array
RECURSIVE IntSum(_)
IntSum(a) == IF a = <<>> THEN 0 ELSE IntSum(SubSeq(a, 1, Len(a) - 1)) + a[Len(a)]

\* np.sum of a float array: left-to-right accumulation (numpy adds in this order for
\* fewer than 8 elements); 0.0 for the empty array
RECURSIVE NpSum(_)
NpSum(a) == IF a = <<>> THEN Lift(Zero) ELSE FAdd(NpSum(SubSeq(a, 1, Len(a) - 1)), a[Len(a)])

Vals(a) == [i \in DOMAIN a |-> a[i].v]

AnyInexact(a) == \E i \in DOMAIN a : a[i].ix

(***************************************************************************)
(* Program settings (both notebooks): the values the model explores.       *)
(***************************************************************************)
Notebooks == {"AnalyticalLinearFit", "ChiSquareTest"}

NexpValues == -1 .. MaxNexp

NpointsValues == -1 .. MaxNpoints

\* (alpha0, alpha1, sigmay): the notebooks' 3.6, 0.3 and 1.0 (a Python literal is
\* converted to the nearest float), the same line with a negative noise scale, and
\* an integer-valued line with noise scales 0 and 2
LineValues == { [alpha0 |-> Fl(Rat(36, 10)), alpha1 |-> Fl(Rat(3, 10)), sigmay |-> One],
                [alpha0 |-> Rat(2, 1),       alpha1 |-> Rat(1, 1),       sigmay |-> Zero],
                [alpha0 |-> Fl(Rat(36, 10)), alpha1 |-> Fl(Rat(3, 10)), sigmay |-> Rat(-1, 1)],
                [alpha0 |-> Rat(2, 1),       alpha1 |-> Rat(1, 1),       sigmay |-> Rat(2, 1)] }

\* values a standard-normal draw of the generator can take in the model
GaussValues == { Zero, Rat(-3, 2) }

Nvar == 2      \* Number of variables (alpha0 and alpha1)

(***************************************************************************)
(* The seeded random source: r = np.random; r.seed(...).                   *)
(* The generator is a fixed function of its seed: tape[seed] is the stream *)
(* of standard-normal values it yields, the generator state is the stream  *)
(* and the read position in it.                                            *)
(***************************************************************************)
SeededStreams == [1 .. StreamPeriod -> GaussValues]

\* the stream an unseeded generator yields in process r (seeded from OS entropy: the
\* streams of two processes differ)
EntropyStream(r) ==
  [p \in 1 .. StreamPeriod |-> IF (p + r) % 2 = 0 THEN Zero ELSE Rat(-3, 2)]

\* the standard-normal value at a position of a stream
DrawAt(stream, pos) == stream[((pos - 1) % StreamPeriod) + 1]

\* r.normal(loc, scale, size): element j is loc + scale * (next standard-normal draw)
Normal(loc, scale, g) == [j \in DOMAIN g |-> FAdd(Lift(loc), FMul(Lift(scale), Lift(g[j])))]

\* a generator that rewinds to the start of the stream at every call
DrawPositionsRewound(pos, size) == [j \in 1 .. size |-> j]

\* stream positions read by one call r.normal(..., size) from generator state pos
DrawPositions(pos, size) == [j \in 1 .. size |-> pos + j]

(***************************************************************************)
(* Data generation.                                                        *)
(***************************************************************************)
\* an abscissa array that starts at 0: np.arange(Npoints) without the + 1
ArangeNoShift(N) == [i \in 1 .. Max(N, 0) |-> i - 1]

\* x = np.arange(Npoints)+1
Arange1(N) == [i \in 1 .. Max(N, 0) |-> i]

\* y = alpha0 + alpha1*x + r.normal(0, sigmay, Npoints)
GenerateY(a0, a1, xs, noise) ==
  [i \in DOMAIN xs |-> FAdd(FAdd(Lift(a0), FMul(Lift(a1), FromInt(xs[i]))), noise[i])]

\* ey = sigmay*np.ones_like(x)
GenerateEy(sig, xs) == [i \in DOMAIN xs |-> FMul(Lift(sig), FromInt(1))]

(***************************************************************************)
(* Analytical fit.                                                         *)
(***************************************************************************)
Squares(xs) == [i \in DOMAIN xs |-> xs[i] * xs[i]]

Products(xs, ys) == [i \in DOMAIN xs |-> FMul(FromInt(xs[i]), Lift(ys[i]))]

Lifted(ys) == [i \in DOMAIN ys |-> Lift(ys[i])]

\* the two terms of Delta exchanged
DeltaOfExchanged(sxx, s, sx) == sx * sx - sxx * s

\* Delta = sxx * s - sx**2
DeltaOf(sxx, s, sx) == sxx * s - sx * sx

\* an intercept that leaves out the term sxy * sx
Alpha0CalcNoCrossTerm(sy, sxx, sxy, sx, Delta) ==
  FDiv(FMul(sy, FromInt(sxx)), FromInt(Delta))

Alpha0Calc(sy, sxx, sxy, sx, Delta) ==
  FDiv(FSub(FMul(sy, FromInt(sxx)), FMul(sxy, FromInt(sx))), FromInt(Delta))

\* a slope that weights sxy with sxx instead of s
Alpha1CalcWrongWeight(sy, s, sxy, sx, Delta) ==
  FDiv(FSub(FMul(sxy, FromInt(sx * sx)), FMul(sy, FromInt(sx))), FromInt(Delta))

Alpha1Calc(sy, s, sxy, sx, Delta) ==
  FDiv(FSub(FMul(sxy, FromInt(s)), FMul(sy, FromInt(sx))), FromInt(Delta))

\* an uncertainty without the factor sigmay
SigmaAlphaCalcNoSigmay(sig, num, Delta) ==
  FSqrt(FDiv(FromInt(num), FromInt(Delta)))

\* sxx / Delta and s / Delta divide two integers (numpy true division)
SigmaAlphaCalc(sig, num, Delta) ==
  FMul(Lift(sig), FSqrt(FDiv(FromInt(num), FromInt(Delta))))

AnalyticalFit(xs, ys, sig) ==
  LET s     == Len(xs)
      sx    == IntSum(xs)
      sxx   == IntSum(Squares(xs))
      sy    == NpSum(Lifted(ys))
      sxy   == NpSum(Products(xs, ys))
      Delta == DeltaOf(sxx, s, sx)
  IN  [ s |-> s, sx |-> sx, sxx |-> sxx, sy |-> sy, sxy |-> sxy, Delta |-> Delta,
        alpha0_calc |-> Alpha0Calc(sy, sxx, sxy, sx, Delta),
        alpha1_calc |-> Alpha1Calc(sy, s, sxy, sx, Delta),
        sigma_alpha0_calc |-> SigmaAlphaCalc(sig, sxx, Delta),
        sigma_alpha1_calc |-> SigmaAlphaCalc(sig, s, Delta) ]

(***************************************************************************)
(* Chi-square, degrees of freedom and probability.                         *)
(***************************************************************************)
\* the loop  for i in range(Npoints): fit_value = ...; Chi2_calc += (...)**2
\* over the first n points, starting from Chi2_calc = 0.0
RECURSIVE Chi2Loop(_, _, _, _, _, _)
Chi2Loop(a0, a1, xs, ys, eys, n) ==
  IF n = 0 THEN Lift(Zero)
  ELSE LET fit_value == FAdd(a0, FMul(a1, FromInt(xs[n])))
           term      == FSquare(FDiv(FSub(Lift(ys[n]), fit_value), Lift(eys[n])))
       IN  FAdd(Chi2Loop(a0, a1, xs, ys, eys, n - 1), term)

\* a fit that counts one parameter only
NdofOneParameter(N) == N - 1

\* Ndof_calc = Npoints - Nvar
Ndof(N) == N - Nvar

\* stats.chi2.sf(chi2, ndof): the upper tail probability of the chi-square distribution.
\* nan for ndof <= 0 or a nan argument, 1 for chi2 <= 0, 0 for chi2 = inf.  The result
\* is a float: for a small positive chi2 the exact value 1 - P(X <= chi2) is nearer to
\* 1 than to the float below 1 and the result is 1.  Otherwise the value is kept as
\* the term sf(x, k), which is smaller for a larger x.
PNaN == [tag |-> "nan", x |-> Zero, k |-> 0]

POne == [tag |-> "one", x |-> Zero, k |-> 0]

PZero == [tag |-> "zero", x |-> Zero, k |-> 0]

\* P(X <= x) <= sqrt(x/2) / Gamma(3/2) for every ndof >= 1 and x <= 2, which is below
\* half the distance 2^-MantBits between 1 and the float below it when
\* x <= 4^-(MantBits+1)
SfRoundsToOne(chi2) == IsFinite(chi2) /\ chi2.n <= chi2.d \div Pow2(2 * MantBits + 2)

\* the lower tail probability stats.chi2.cdf in the place of the upper one
Chi2Cdf(chi2, ndof) ==
  IF ndof <= 0 \/ IsNaN(chi2) THEN PNaN
  ELSE IF chi2.n <= 0 THEN PZero
  ELSE IF IsInf(chi2) THEN POne
  ELSE [tag |-> "sf", x |-> RNeg(chi2), k |-> ndof]

Chi2Sf(chi2, ndof) ==
  IF ndof <= 0 \/ IsNaN(chi2) THEN PNaN
  ELSE IF chi2.n <= 0 THEN POne
  ELSE IF SfRoundsToOne(chi2) THEN POne
  ELSE IF IsInf(chi2) THEN PZero
  ELSE [tag |-> "sf", x |-> chi2, k |-> ndof]

(***************************************************************************)
(* Numerical fit: Chi2Regression + Minuit.migrad, an external minimiser.   *)
(* It returns parameter values at (or next to) the minimum of the          *)
(* chi-square, their errors and the chi-square value there.                *)
(***************************************************************************)
MigradStep == Rat(1, 16)

\* how far from the minimum in alpha0 the minimiser stops
MigradBiasValues == { Zero, MigradStep }

MigradResult(xs, ys, eys, sig, bias) ==
  LET f  == AnalyticalFit(xs, ys, sig)
      a0 == FAdd(f.alpha0_calc, Lift(bias))
  IN  [ alpha0_fit |-> a0.v, alpha1_fit |-> f.alpha1_calc.v,
        sigma_alpha0_fit |-> f.sigma_alpha0_calc.v,
        sigma_alpha1_fit |-> f.sigma_alpha1_calc.v,
        Chi2_fit |-> Chi2Loop(Lift(a0.v), Lift(f.alpha1_calc.v), xs, ys, eys, Len(xs)).v ]

(***************************************************************************)
(* State.                                                                  *)
(***************************************************************************)
VARIABLES
  notebook,       \* which of the two notebooks is executed
  Nexp, Npoints, alpha0, alpha1, sigmay,      \* program settings
  run,            \* 1: first execution, 2: execution in a second, fresh process
  pc,             \* position in the notebook
  error,          \* the exception that ended the execution ("" if none)
  rng,            \* state of np.random: [stream, pos]
  tape,           \* per stream, the standard-normal values the generator yields
  iexp,           \* loop variable (-1 before the loop)
  x, ex, y, ey,   \* the current dataset
  ana,            \* locals of the analytical fit and of its chi-square evaluation
  num,            \* locals of the numerical fit
  array_alpha0, array_alpha1, array_Chi2, array_Prob,    \* result arrays
  stdout,         \* the lines printed
  inexact,        \* per stage of the current iteration: did an operation round?
  drawLog,        \* history: the Gaussian draws consumed, [iexp, stream, pos, at]
  writeLog,       \* history: the array slots written, [array, index]
  sfLog,          \* history: the calls of stats.chi2.sf, [iexp, chi2, ndof, prob]
  genLog,         \* history: the datasets generated, [iexp, noise, x, ey, y]
  migradBias,     \* the minimiser's distance from the minimum (it is a fixed function)
  prevBatch,      \* the result arrays of run 1 (<<>> during run 1)
  blinded,        \* table measurement: is the analysis blinded?
  blinding,       \* table measurement: the constant added to the lengths
  infiles,        \* table measurement: the data files, each a sequence of rows
  ifile,          \* table measurement: number of files loaded so far
  L30cm, eL30cm, L2m, eL2m,     \* table measurement: the arrays loaded
  loadLog,        \* history: the file rows loaded, as read from the files
  fxArg,          \* accept-reject: the argument fx_x3 is called with
  fxResult,       \* accept-reject: what the call of fx_x3 did
  fnArgs,         \* histogram functions: the function called and its arguments
  fnResult,       \* histogram functions: what the call returned
  Ntimes,         \* likelihood: number of time measurements
  times,          \* likelihood: the array t, as runs [time, count] of equal values
  yExp,           \* likelihood: the histogram of the times (counts per bin)
  xExp_edges,     \* likelihood: the bin edges of the histogram
  Ntau_steps,     \* likelihood: the scan has Ntau_steps + 1 points
  itau,           \* likelihood: scan points done so far
  tau, chi2_arr, bllh_arr, ullh_arr,  \* likelihood: the scan arrays tau, chi2, bllh, ullh
  chi2_min, bllh_min, ullh_min, \* likelihood: tracked minimum [val, pos] of each statistic
  termLog,        \* history: per scan point, the bins that gave a chi2 / bllh term
  errScan,        \* likelihood: names and output of the +-1 sigma scan of chi2
  fval_fit,       \* likelihood: the call chisquare(tau_fitted) and its value
  cell,           \* likelihood cells: number of cells executed
  names,          \* likelihood cells: the names assigned so far
  flags,          \* likelihood cells: the values the program settings give the flags
  unassigned      \* likelihood cells: the names read without having been assigned

settings == <<notebook, Nexp, Npoints, alpha0, alpha1, sigmay>>

dataset == <<x, ex, y, ey>>

arrays == <<array_alpha0, array_alpha1, array_Chi2, array_Prob>>

history == <<drawLog, writeLog, sfLog, genLog>>

table == <<blinded, blinding, infiles, ifile, L30cm, eL30cm, L2m, eL2m, loadLog>>

polynomial == <<fxArg, fxResult>>

functions == <<fnArgs, fnResult>>

likelihood == <<Ntimes, times, yExp, xExp_edges, Ntau_steps, itau, tau, chi2_arr, bllh_arr, ullh_arr,
                chi2_min, bllh_min, ullh_min, termLog, errScan, fval_fit>>

namespace == <<cell, names, flags, unassigned>>

vars == <<settings, run, pc, error, rng, tape, iexp, dataset, ana, num, arrays, stdout,
          inexact, history, migradBias, prevBatch, table, polynomial, functions,
          likelihood, namespace>>

Streams == {-2, -1, 1, 42}

\* r.seed(42) in AnalyticalLinearFit, r.seed(1) in ChiSquareTest
SeedOf(nb) == IF nb = "AnalyticalLinearFit" THEN 42 ELSE 1

\* the state of np.random in a fresh process: seeded from OS entropy, a stream of its own
FreshRng(r) == [stream |-> -r, pos |-> 0]

\* a seed call without effect: the generator keeps the state it has
SeedStateIgnored(seed) == rng

\* r.seed(seed)
SeedState(seed) == [stream |-> seed, pos |-> 0]

AnaUnbound ==
  [ s |-> 0, sx |-> 0, sxx |-> 0, sy |-> Unbound, sxy |-> Unbound, Delta |-> 0,
    alpha0_calc |-> Unbound, alpha1_calc |-> Unbound,
    sigma_alpha0_calc |-> Unbound, sigma_alpha1_calc |-> Unbound,
    Chi2_calc |-> Unbound, Ndof_calc |-> 0, Prob_calc |-> PNaN, bound |-> {} ]

NumUnbound ==
  [ alpha0_fit |-> Unbound, alpha1_fit |-> Unbound,
    sigma_alpha0_fit |-> Unbound, sigma_alpha1_fit |-> Unbound,
    Chi2_fit |-> Unbound, Ndof_fit |-> 0, Prob_fit |-> PNaN, bound |-> {} ]

NoRounding == [gen |-> FALSE, fit |-> FALSE, eval |-> FALSE]

\* the names of the table measurement notebook before its cells are run
TableUnbound ==
  /\ blinded = FALSE /\ blinding = Unbound
  /\ infiles = <<>> /\ ifile = 0
  /\ L30cm = <<>> /\ eL30cm = <<>> /\ L2m = <<>> /\ eL2m = <<>>
  /\ loadLog = <<>>

\* fx_x3 before it is called
NotCalled == [state |-> "not called", value |-> [type |-> "none", v |-> Zero]]

PolynomialUnbound == fxArg = [type |-> "none", v |-> Zero] /\ fxResult = NotCalled

\* the histogram functions before they are called
FunctionsUnbound ==
  /\ fnArgs = [fn |-> "none"]
  /\ fnResult = [state |-> "not called"]

\* the names of the likelihood notebook before its cells are run
LikelihoodUnbound ==
  /\ Ntimes = 0 /\ times = <<>> /\ yExp = <<>> /\ xExp_edges = <<>>
  /\ Ntau_steps = 0 /\ itau = 0
  /\ tau = <<>> /\ chi2_arr = <<>> /\ bllh_arr = <<>> /\ ullh_arr = <<>>
  /\ chi2_min = [val |-> Unbound, pos |-> Unbound]
  /\ bllh_min = [val |-> Unbound, pos |-> Unbound]
  /\ ullh_min = [val |-> Unbound, pos |-> Unbound]
  /\ termLog = <<>>
  /\ errScan = [state |-> "not run"]
  /\ fval_fit = [state |-> "not called"]

NamespaceUnbound ==
  /\ cell = 0 /\ names = {} /\ unassigned = {}
  /\ flags = [save_plots |-> FALSE, verbose |-> TRUE, veryverbose |-> TRUE, ScanChi2 |-> TRUE]

\* the names of the experiment loop before its cells are run
LoopUnbound ==
  /\ Nexp = 0 /\ Npoints = 0
  /\ alpha0 = Zero /\ alpha1 = Zero /\ sigmay = One
  /\ migradBias = Zero
  /\ prevBatch = <<>>
  /\ run = 1
  /\ error = ""
  /\ iexp = -1
  /\ x = <<>> /\ ex = <<>> /\ y = <<>> /\ ey = <<>>
  /\ ana = AnaUnbound
  /\ num = NumUnbound
  /\ array_alpha0 = <<>> /\ array_alpha1 = <<>> /\ array_Chi2 = <<>> /\ array_Prob = <<>>
  /\ stdout = <<>>
  /\ inexact = NoRounding
  /\ writeLog = <<>> /\ sfLog = <<>> /\ genLog = <<>>

\* the state of a process that is about to execute the notebook
Start(r) ==
  /\ run = r
  /\ pc = "seed"
  /\ error = ""
  /\ rng = FreshRng(r)
  /\ iexp = -1
  /\ x = <<>> /\ ex = <<>> /\ y = <<>> /\ ey = <<>>
  /\ ana = AnaUnbound
  /\ num = NumUnbound
  /\ array_alpha0 = <<>> /\ array_alpha1 = <<>> /\ array_Chi2 = <<>> /\ array_Prob = <<>>
  /\ stdout = <<>>
  /\ inexact = NoRounding
  /\ drawLog = <<>> /\ writeLog = <<>> /\ sfLog = <<>> /\ genLog = <<>>

Init ==
  /\ notebook \in Notebooks
  /\ Nexp \in NexpValues
  /\ Npoints \in NpointsValues
  /\ \E line \in LineValues :
       alpha0 = line.alpha0 /\ alpha1 = line.alpha1 /\ sigmay = line.sigmay
  /\ \E stream \in SeededStreams :
       tape = [st \in Streams |-> IF st < 0 THEN EntropyStream(-st) ELSE stream]
  /\ migradBias \in MigradBiasValues
  /\ prevBatch = <<>>
  /\ Start(1)
  /\ TableUnbound
  /\ PolynomialUnbound
  /\ FunctionsUnbound
  /\ LikelihoodUnbound
  /\ NamespaceUnbound

(***************************************************************************)
(* Exceptions: nothing in the notebooks catches one, so the first          *)
(* exception ends the execution of the cell.                               *)
(***************************************************************************)
\* an exception that is caught in the loop body, which goes on to its print
RaiseCaught(exc) == pc' = "print" /\ error' = exc

Raise(exc) == pc' = "failed" /\ error' = exc

Append4(log, a, b, c, d) == log \o <<a, b, c, d>>

\* an assignment that always writes the first slot
FilledFirst(arr, i, val) == [arr EXCEPT ![0] = val]

\* arr[i] = val
Filled(arr, i, val) == [arr EXCEPT ![i] = val]

\* np.zeros(n)
Zeros(n, zero) == [i \in 0 .. n - 1 |-> zero]

(***************************************************************************)
(* r = np.random; r.seed(...)                                              *)
(***************************************************************************)
SeedRandom ==
  /\ pc = "seed"
  /\ rng' = SeedState(SeedOf(notebook))
  /\ pc' = "alloc"
  /\ UNCHANGED <<settings, functions, likelihood, namespace, table, polynomial, run, error, tape, iexp, dataset, ana, num, arrays, stdout,
                 inexact, history, migradBias, prevBatch>>

(***************************************************************************)
(* array_alpha0 = np.zeros(Nexp) ... array_Prob = np.zeros(Nexp)           *)
(***************************************************************************)
Allocate ==
  /\ pc = "alloc"
  /\ IF Nexp < 0
     THEN /\ Raise("ValueError")
          /\ UNCHANGED arrays
     ELSE /\ array_alpha0' = Zeros(Nexp, Zero)
          /\ array_alpha1' = Zeros(Nexp, Zero)
          /\ array_Chi2' = Zeros(Nexp, Zero)
          /\ array_Prob' = Zeros(Nexp, PZero)
          /\ pc' = "for"
          /\ error' = error
  /\ UNCHANGED <<settings, functions, likelihood, namespace, table, polynomial, run, rng, tape, iexp, dataset, ana, num, stdout,
                 inexact, history, migradBias, prevBatch>>

(***************************************************************************)
(* for iexp in range(Nexp) :                                               *)
(***************************************************************************)
ForNext ==
  /\ pc = "for"
  /\ IF iexp + 1 < Nexp
     THEN iexp' = iexp + 1 /\ pc' = "generate"
     ELSE iexp' = iexp /\ pc' = "done"
  /\ UNCHANGED <<settings, functions, likelihood, namespace, table, polynomial, run, error, rng, tape, dataset, ana, num, arrays, stdout,
                 inexact, history, migradBias, prevBatch>>

(***************************************************************************)
(* x = np.arange(Npoints)+1;  ex = np.zeros_like(x)                        *)
(* y = alpha0 + alpha1*x + r.normal(0, sigmay, Npoints)                    *)
(* ey = sigmay*np.ones_like(x)                                             *)
(* r.normal raises ValueError for a negative size or a negative scale,     *)
(* before it draws anything.                                               *)
(***************************************************************************)
Generate ==
  /\ pc = "generate"
  /\ x' = Arange1(Npoints)
  /\ ex' = [i \in DOMAIN x' |-> 0]
  /\ IF Npoints < 0 \/ sigmay.n < 0
     THEN /\ Raise("ValueError")
          /\ UNCHANGED <<rng, tape, y, ey, inexact, drawLog, genLog>>
     ELSE LET positions == DrawPositions(rng.pos, Npoints)
              last      == IF Npoints = 0 THEN rng.pos ELSE positions[Npoints]
              g         == [j \in 1 .. Npoints |-> DrawAt(tape[rng.stream], positions[j])]
              noise     == Normal(Zero, sigmay, g)
          IN  \E ys \in {GenerateY(alpha0, alpha1, x', noise)} :
                    /\ tape' = tape
                    /\ rng' = [rng EXCEPT !.pos = last]
                    /\ y' = Vals(ys)
                    /\ ey' = Vals(GenerateEy(sigmay, x'))
                    /\ inexact' = [gen |-> AnyInexact(ys), fit |-> FALSE, eval |-> FALSE]
                    /\ drawLog' = drawLog \o
                         [j \in 1 .. Npoints |->
                            [iexp |-> iexp, stream |-> rng.stream, pos |-> positions[j], at |-> pc]]
                    /\ genLog' = Append(genLog, [iexp |-> iexp, noise |-> Vals(noise),
                                                  x |-> x', ey |-> ey', y |-> y'])
                    /\ pc' = IF notebook = "AnalyticalLinearFit" THEN "fit" ELSE "numfit"
                    /\ error' = error
  /\ UNCHANGED <<settings, functions, likelihood, namespace, table, polynomial, run, iexp, ana, num, arrays, stdout, writeLog, sfLog,
                 migradBias, prevBatch>>

(***************************************************************************)
(* Analytical fit: the sums, Delta, alpha0_calc, alpha1_calc and the       *)
(* uncertainties.  Nothing is checked before the divisions by Delta.       *)
(***************************************************************************)
\* a fit after which the loop goes on to the store, without the evaluation
FitThenStore ==
  /\ pc = "fit"
  /\ \E f \in {AnalyticalFit(x, y, sigmay)} :
         /\ ana' = [ana EXCEPT !.s = f.s, !.sx = f.sx, !.sxx = f.sxx,
                               !.sy = f.sy.v, !.sxy = f.sxy.v, !.Delta = f.Delta,
                               !.alpha0_calc = f.alpha0_calc.v,
                               !.alpha1_calc = f.alpha1_calc.v,
                               !.sigma_alpha0_calc = f.sigma_alpha0_calc.v,
                               !.sigma_alpha1_calc = f.sigma_alpha1_calc.v,
                               !.bound = @ \cup {"fit"}]
         /\ inexact' = [inexact EXCEPT !.fit = f.alpha0_calc.ix \/ f.alpha1_calc.ix]
  /\ pc' = "store"
  /\ UNCHANGED <<settings, functions, likelihood, namespace, table, polynomial, run, error, rng, tape, iexp, dataset, num, arrays, stdout,
                 history, migradBias, prevBatch>>

Fit ==
  /\ pc = "fit"
  /\ \E f \in {AnalyticalFit(x, y, sigmay)} :
         /\ ana' = [ana EXCEPT !.s = f.s, !.sx = f.sx, !.sxx = f.sxx,
                               !.sy = f.sy.v, !.sxy = f.sxy.v, !.Delta = f.Delta,
                               !.alpha0_calc = f.alpha0_calc.v,
                               !.alpha1_calc = f.alpha1_calc.v,
                               !.sigma_alpha0_calc = f.sigma_alpha0_calc.v,
                               !.sigma_alpha1_calc = f.sigma_alpha1_calc.v,
                               !.bound = @ \cup {"fit"}]
         /\ inexact' = [inexact EXCEPT !.fit = f.alpha0_calc.ix \/ f.alpha1_calc.ix]
  /\ pc' = "evaluate"
  /\ UNCHANGED <<settings, functions, likelihood, namespace, table, polynomial, run, error, rng, tape, iexp, dataset, num, arrays, stdout,
                 history, migradBias, prevBatch>>

(***************************************************************************)
(* Chi2_calc (loop over the points), Nvar, Ndof_calc, Prob_calc.           *)
(***************************************************************************)
Evaluate ==
  /\ pc = "evaluate"
  /\ \E chi2 \in {Chi2Loop(Lift(ana.alpha0_calc), Lift(ana.alpha1_calc), x, y, ey, Npoints)} :
     LET ndof == Ndof(Npoints)
         prob == Chi2Sf(chi2.v, ndof)
     IN  /\ ana' = [ana EXCEPT !.Chi2_calc = chi2.v, !.Ndof_calc = ndof, !.Prob_calc = prob,
                               !.bound = @ \cup {"evaluate"}]
         /\ inexact' = [inexact EXCEPT !.eval = chi2.ix]
         /\ sfLog' = Append(sfLog, [iexp |-> iexp, chi2 |-> chi2.v, ndof |-> ndof,
                                    prob |-> prob])
  /\ pc' = "store"
  /\ UNCHANGED <<settings, functions, likelihood, namespace, table, polynomial, run, error, rng, tape, iexp, dataset, num, arrays, stdout,
                 drawLog, writeLog, genLog, migradBias, prevBatch>>

(***************************************************************************)
(* array_alpha0[iexp] = ...; array_alpha1[iexp] = ...;                     *)
(* array_Chi2[iexp] = ...;   array_Prob[iexp] = ...                        *)
(* AnalyticalLinearFit stores the analytical results, ChiSquareTest the    *)
(* results of the numerical fit.                                           *)
(***************************************************************************)
Store ==
  /\ pc = "store"
  /\ LET ana_nb == notebook = "AnalyticalLinearFit"
     IN  /\ array_alpha0' = Filled(array_alpha0, iexp,
                                   IF ana_nb THEN ana.alpha0_calc ELSE num.alpha0_fit)
         /\ array_alpha1' = Filled(array_alpha1, iexp,
                                   IF ana_nb THEN ana.alpha1_calc ELSE num.alpha1_fit)
         /\ array_Chi2' = Filled(array_Chi2, iexp,
                                 IF ana_nb THEN ana.Chi2_calc ELSE num.Chi2_fit)
         /\ array_Prob' = Filled(array_Prob, iexp,
                                 IF ana_nb THEN ana.Prob_calc ELSE num.Prob_fit)
         /\ pc' = IF ana_nb THEN "numfit" ELSE "print"
  /\ writeLog' = Append4(writeLog,
                         [array |-> "array_alpha0", index |-> iexp],
                         [array |-> "array_alpha1", index |-> iexp],
                         [array |-> "array_Chi2", index |-> iexp],
                         [array |-> "array_Prob", index |-> iexp])
  /\ UNCHANGED <<settings, functions, likelihood, namespace, table, polynomial, run, error, rng, tape, iexp, dataset, ana, num, stdout,
                 inexact, drawLog, sfLog, genLog, migradBias, prevBatch>>

(***************************************************************************)
(* Numerical fit: Chi2Regression, Minuit, migrad, then the values, errors, *)
(* fval and the probability.  The minimiser is external: it returns a      *)
(* result, the same for the same dataset, or raises.                       *)
(* ChiSquareTest computes Nvar and Ndof_fit here; AnalyticalLinearFit      *)
(* takes Ndof_calc "from above".                                           *)
(***************************************************************************)
NumericalFit ==
  /\ pc = "numfit"
  /\ \/ /\ Raise("RuntimeError")
        /\ UNCHANGED <<num, sfLog>>
     \/ \E r \in {MigradResult(x, y, ey, sigmay, migradBias)} :
          /\ LET ana_nb == notebook = "AnalyticalLinearFit"
                 ndof   == IF ana_nb THEN ana.Ndof_calc ELSE Ndof(Npoints)
                 prob   == Chi2Sf(r.Chi2_fit, ndof)
             IN  /\ num' = [ alpha0_fit |-> r.alpha0_fit, alpha1_fit |-> r.alpha1_fit,
                             sigma_alpha0_fit |-> r.sigma_alpha0_fit,
                             sigma_alpha1_fit |-> r.sigma_alpha1_fit,
                             Chi2_fit |-> r.Chi2_fit,
                             Ndof_fit |-> IF ana_nb THEN num.Ndof_fit ELSE ndof,
                             Prob_fit |-> prob, bound |-> {"numfit"} ]
                 /\ sfLog' = Append(sfLog, [iexp |-> iexp, chi2 |-> r.Chi2_fit, ndof |-> ndof,
                                            prob |-> prob])
                 /\ pc' = IF ana_nb THEN "print" ELSE "store"
                 /\ error' = error
  /\ UNCHANGED <<settings, functions, likelihood, namespace, table, polynomial, run, rng, tape, iexp, dataset, ana, arrays, stdout,
                 inexact, drawLog, writeLog, genLog, migradBias, prevBatch>>

(***************************************************************************)
(* if (iexp < 10) : print(...)                                             *)
(* {v:6.3f} prints v rounded to 3 decimals: kept as the number of          *)
(* thousandths (round half to even); nan and inf print as such.            *)
(***************************************************************************)
PrintLimit == 10

Fmt3(v) ==
  IF v.d <= 0 THEN v
  ELSE LET n  == Abs(v.n) * 1000
           m  == n \div v.d
           r  == n - m * v.d
           mm == IF 2 * r > v.d \/ (2 * r = v.d /\ m % 2 = 1) THEN m + 1 ELSE m
       IN  Rat(Sgn(v.n) * mm, 1000)

PrintLine ==
  /\ pc = "print"
  /\ stdout' = IF iexp < PrintLimit
               THEN Append(stdout,
                      IF notebook = "AnalyticalLinearFit"
                      THEN << Fmt3(ana.alpha0_calc), Fmt3(ana.sigma_alpha0_calc),
                              Fmt3(ana.alpha1_calc), Fmt3(ana.sigma_alpha1_calc),
                              Fmt3(num.alpha0_fit), Fmt3(num.sigma_alpha0_fit),
                              Fmt3(num.alpha1_fit), Fmt3(num.sigma_alpha1_fit) >>
                      ELSE << Fmt3(num.alpha0_fit), Fmt3(num.sigma_alpha0_fit),
                              Fmt3(num.alpha1_fit), Fmt3(num.sigma_alpha1_fit) >>)
               ELSE stdout
  /\ pc' = "for"
  /\ UNCHANGED <<settings, functions, likelihood, namespace, table, polynomial, run, error, rng, tape, iexp, dataset, ana, num, arrays,
                 inexact, history, migradBias, prevBatch>>

(***************************************************************************)
(* A second, independent execution of the same notebook with the same      *)
(* settings, in a fresh process; the result arrays of the first are kept   *)
(* for comparison.                                                         *)
(***************************************************************************)
Rerun ==
  /\ pc = "done"
  /\ run = 1
  /\ prevBatch' = arrays
  /\ run' = 2
  /\ pc' = "seed"
  /\ error' = ""
  /\ rng' = FreshRng(2)
  /\ iexp' = -1
  /\ x' = <<>> /\ ex' = <<>> /\ y' = <<>> /\ ey' = <<>>
  /\ ana' = AnaUnbound
  /\ num' = NumUnbound
  /\ array_alpha0' = <<>> /\ array_alpha1' = <<>> /\ array_Chi2' = <<>> /\ array_Prob' = <<>>
  /\ stdout' = <<>>
  /\ inexact' = NoRounding
  /\ drawLog' = <<>> /\ writeLog' = <<>> /\ sfLog' = <<>> /\ genLog' = <<>>
  /\ UNCHANGED <<settings, functions, likelihood, namespace, table, polynomial, tape, migradBias>>

Next ==
  \/ SeedRandom
  \/ Allocate
  \/ ForNext
  \/ Generate
  \/ Fit
  \/ Evaluate
  \/ Store
  \/ NumericalFit
  \/ PrintLine
  \/ Rerun

Spec == Init /\ [][Next]_vars

(***************************************************************************)
(* stats.chi2.sf on its own: calls with arguments drawn from a set of      *)
(* chi-square values (0, two values next to 0, ordinary values, inf) and   *)
(* of degrees of freedom; the calls are logged in sfLog.                   *)
(***************************************************************************)
Chi2Values == { Zero, Rat(1, Pow2(2 * MantBits + 3)), Rat(1, Pow2(2 * MantBits + 2)),
                Rat(1, 2), One, Rat(7, 2), Inf }

NdofValues == 1 .. MaxNdof

InitSf ==
  /\ notebook = "AnalyticalLinearFit"
  /\ Nexp = 0 /\ Npoints = 0
  /\ alpha0 = Zero /\ alpha1 = Zero /\ sigmay = One
  /\ tape = [st \in Streams |-> EntropyStream(1)]
  /\ migradBias = Zero
  /\ prevBatch = <<>>
  /\ run = 1
  /\ pc = "sf"
  /\ error = ""
  /\ rng = FreshRng(1)
  /\ iexp = -1
  /\ x = <<>> /\ ex = <<>> /\ y = <<>> /\ ey = <<>>
  /\ ana = AnaUnbound
  /\ num = NumUnbound
  /\ array_alpha0 = <<>> /\ array_alpha1 = <<>> /\ array_Chi2 = <<>> /\ array_Prob = <<>>
  /\ stdout = <<>>
  /\ inexact = NoRounding
  /\ drawLog = <<>> /\ writeLog = <<>> /\ sfLog = <<>> /\ genLog = <<>>
  /\ TableUnbound
  /\ PolynomialUnbound
  /\ FunctionsUnbound
  /\ LikelihoodUnbound
  /\ NamespaceUnbound

SfCall ==
  /\ pc = "sf"
  /\ Len(sfLog) < MaxSfCalls
  /\ \E chi2 \in Chi2Values, ndof \in NdofValues :
       sfLog' = Append(sfLog, [iexp |-> iexp, chi2 |-> chi2, ndof |-> ndof,
                               prob |-> Chi2Sf(chi2, ndof)])
  /\ UNCHANGED <<settings, functions, likelihood, namespace, table, polynomial, run, pc, error, rng, tape, iexp, dataset, ana, num, arrays,
                 stdout, inexact, drawLog, writeLog, genLog, migradBias, prevBatch>>

NextSf == SfCall

SpecSf == InitSf /\ [][NextSf]_vars

(***************************************************************************)
(* The analytical fit on its own: the sums and Delta for any abscissae,    *)
(* not only the x = 1..Npoints the loop generates.                         *)
(***************************************************************************)
MaxX == 2             \* largest abscissa of a dataset given to the fit on its own

XValues == -1 .. MaxX

Abscissae == UNION {[1 .. n -> XValues] : n \in 0 .. MaxNpoints}

InitDelta ==
  /\ notebook = "AnalyticalLinearFit"
  /\ pc = "fit"
  /\ x \in Abscissae
  /\ Npoints = Len(x)
  /\ Nexp = 1
  /\ alpha0 = Zero /\ alpha1 = Zero /\ sigmay = One
  /\ migradBias = Zero
  /\ prevBatch = <<>>
  /\ run = 1
  /\ error = ""
  /\ iexp = 0
  /\ ex = [i \in DOMAIN x |-> 0]
  /\ y = [i \in DOMAIN x |-> Zero]
  /\ ey = [i \in DOMAIN x |-> One]
  /\ ana = AnaUnbound
  /\ num = NumUnbound
  /\ array_alpha0 = Zeros(1, Zero) /\ array_alpha1 = Zeros(1, Zero)
  /\ array_Chi2 = Zeros(1, Zero) /\ array_Prob = Zeros(1, PZero)
  /\ stdout = <<>>
  /\ inexact = NoRounding
  /\ rng = SeedState(42)
  /\ tape = [st \in Streams |-> EntropyStream(1)]
  /\ drawLog = <<>> /\ writeLog = <<>> /\ sfLog = <<>> /\ genLog = <<>>
  /\ TableUnbound
  /\ PolynomialUnbound
  /\ FunctionsUnbound
  /\ LikelihoodUnbound
  /\ NamespaceUnbound

NextDelta == Fit

SpecDelta == InitDelta /\ [][NextDelta]_vars

(***************************************************************************)
(* Week3 TransformationAcceptReject_pol3: the function                     *)
(*     def fx_x3(x) :                                                      *)
(*         return x^3                                                      *)
(* In Python ^ is the bitwise exclusive or: defined on integers, a         *)
(* TypeError on a float (and on an array of floats).                       *)
(***************************************************************************)
FxSteps == 64        \* the float arguments explored are the multiples of 1/FxSteps

PyInt(i) == [type |-> "int", v |-> Rat(i, 1)]

PyFloat(q) == [type |-> "float", v |-> q]

\* a ^ b on non-negative integers
RECURSIVE Xor(_, _)
Xor(a, b) ==
  IF a = 0 /\ b = 0 THEN 0
  ELSE (((a % 2) + (b % 2)) % 2) + 2 * Xor(a \div 2, b \div 2)

\* the domain [0, C] of f(x) = x^3 normalised to 1: C^4 / 4 = 1, C = sqrt(2)
InDomain(q) == q.n >= 0 /\ q.n * q.n <= 2 * q.d * q.d

FxArgs ==
  {PyInt(i) : i \in {j \in 0 .. 2 : InDomain(Rat(j, 1))}}
    \cup {PyFloat(q) : q \in {r \in {Fl(Rat(k, FxSteps)) : k \in 0 .. 2 * FxSteps} : InDomain(r)}}

fx_x3(arg) ==
  IF arg.type = "int"
  THEN [state |-> "returned", value |-> PyInt(Xor(arg.v.n, 3))]
  ELSE [state |-> "TypeError", value |-> [type |-> "none", v |-> Zero]]

InitFx ==
  /\ notebook = "TransformationAcceptReject_pol3"
  /\ pc = "fx"
  /\ rng = FreshRng(1)
  /\ tape = [st \in Streams |-> EntropyStream(1)]
  /\ drawLog = <<>>
  /\ LoopUnbound
  /\ TableUnbound
  /\ FunctionsUnbound
  /\ LikelihoodUnbound
  /\ NamespaceUnbound
  /\ fxArg \in FxArgs
  /\ fxResult = NotCalled

CallFx ==
  /\ pc = "fx"
  /\ fxResult = NotCalled
  /\ fxResult' = fx_x3(fxArg)
  /\ UNCHANGED <<settings, functions, likelihood, namespace, table, fxArg, run, pc, error, rng, tape, iexp, dataset, ana, num,
                 arrays, stdout, inexact, history, migradBias, prevBatch>>

NextFx == CallFx

SpecFx == InitFx /\ [][NextFx]_vars

(***************************************************************************)
(* Week2 TableMeasurement and Week4 RandomDigitsTest: blinding and the     *)
(* file loading loop (the same code in both notebooks).                    *)
(*     r.seed(42)                                                          *)
(*     if blinded: blinding = r.normal(0, 0.1)                             *)
(*     else:       blinding = 0                                            *)
(*     for infile in infiles:                                              *)
(*         tmp_L30cm, tmp_eL30cm, tmp_L2m, tmp_eL2m = np.loadtxt(...)      *)
(*         L30cm = np.append(L30cm, tmp_L30cm + blinding) ...              *)
(* The data files are inputs: their rows are drawn from a small catalogue. *)
(***************************************************************************)
MaxFiles == 2        \* number of input files

TableNotebooks == {"TableMeasurement", "RandomDigitsTest"}

Row(a, ea, b, eb) == [L30cm |-> a, eL30cm |-> ea, L2m |-> b, eL2m |-> eb]

\* the contents of the data files as np.loadtxt parses them (floats); the last file
\* holds a length mismeasured by many ruler lengths
DataFiles ==
  { << Row(Rat(215, 64), Rat(1, 256), Rat(27, 8), Rat(1, 512)) >>,
    << Row(Rat(27, 8), Rat(1, 128), Rat(215, 64), Rat(1, 512)),
       Row(Rat(217, 64), Rat(1, 256), Rat(27, 8), Rat(1, 256)) >>,
    << Row(Rat(129, 64), Rat(1, 256), Rat(27, 8), Rat(1, 512)) >> }

InFiles == UNION {[1 .. n -> DataFiles] : n \in 1 .. MaxFiles}

Column(file, name) == [k \in DOMAIN file |-> file[k][name]]

\* an offset added to the first row of a file only
OffsetFirstRow(column, b) ==
  [k \in DOMAIN column |-> IF k = 1 THEN FAdd(Lift(column[k]), Lift(b)).v ELSE column[k]]

\* tmp_L30cm + blinding: the float sum, element by element
Offset(column, b) == [k \in DOMAIN column |-> FAdd(Lift(column[k]), Lift(b)).v]

InitTable ==
  /\ notebook \in TableNotebooks
  /\ blinded \in BOOLEAN
  /\ infiles \in InFiles
  /\ pc = "seed"
  /\ rng = FreshRng(1)
  /\ \E s \in SeededStreams :
        tape = [st \in Streams |-> IF st = 42 THEN s ELSE EntropyStream(1)]
  /\ drawLog = <<>>
  /\ LoopUnbound
  /\ blinding = Unbound
  /\ ifile = 0
  /\ L30cm = <<>> /\ eL30cm = <<>> /\ L2m = <<>> /\ eL2m = <<>>
  /\ loadLog = <<>>
  /\ PolynomialUnbound
  /\ FunctionsUnbound
  /\ LikelihoodUnbound
  /\ NamespaceUnbound

\* r.seed(42)
TableSeed ==
  /\ notebook \in TableNotebooks
  /\ pc = "seed"
  /\ rng' = SeedState(42)
  /\ pc' = "blinding"
  /\ UNCHANGED <<settings, functions, likelihood, namespace, table, polynomial, run, error, tape, iexp, dataset, ana, num,
                 arrays, stdout, inexact, history, migradBias, prevBatch>>

\* if blinded: blinding = r.normal(0, 0.1)  else: blinding = 0
Blinding ==
  /\ pc = "blinding"
  /\ IF blinded
     THEN /\ blinding' = Normal(Zero, Fl(Rat(1, 10)), <<DrawAt(tape[rng.stream], rng.pos + 1)>>)[1].v
          /\ rng' = [rng EXCEPT !.pos = @ + 1]
          /\ drawLog' = Append(drawLog, [iexp |-> -1, stream |-> rng.stream,
                                         pos |-> rng.pos + 1, at |-> "blinding"])
     ELSE /\ blinding' = Zero
          /\ UNCHANGED <<rng, drawLog>>
  /\ pc' = "arrays"
  /\ UNCHANGED <<settings, functions, likelihood, namespace, blinded, infiles, ifile, L30cm, eL30cm, L2m, eL2m, loadLog,
                 polynomial, run, error, tape, iexp, dataset, ana, num, arrays, stdout,
                 inexact, writeLog, sfLog, genLog, migradBias, prevBatch>>

\* L30cm = np.array([]) ; eL30cm = np.array([]) ; L2m = ... ; eL2m = ...
InitArrays ==
  /\ pc = "arrays"
  /\ L30cm' = <<>> /\ eL30cm' = <<>> /\ L2m' = <<>> /\ eL2m' = <<>>
  /\ ifile' = 0
  /\ pc' = "load"
  /\ UNCHANGED <<settings, functions, likelihood, namespace, blinded, blinding, infiles, loadLog, polynomial, run, error, rng,
                 tape, iexp, dataset, ana, num, arrays, stdout, inexact, history,
                 migradBias, prevBatch>>

\* one pass of "for infile in infiles": load the file, append its four columns
LoadFile ==
  /\ pc = "load"
  /\ ifile < Len(infiles)
  /\ \E file \in {infiles[ifile + 1]} :
        /\ L30cm' = L30cm \o Offset(Column(file, "L30cm"), blinding)
        /\ eL30cm' = eL30cm \o Column(file, "eL30cm")
        /\ L2m' = L2m \o Offset(Column(file, "L2m"), blinding)
        /\ eL2m' = eL2m \o Column(file, "eL2m")
        /\ loadLog' = loadLog \o file
  /\ ifile' = ifile + 1
  /\ UNCHANGED <<settings, functions, likelihood, namespace, blinded, blinding, infiles, polynomial, run, pc, error, rng, tape,
                 iexp, dataset, ana, num, arrays, stdout, inexact, history, migradBias,
                 prevBatch>>

\* the loop over infiles is exhausted
LoadDone ==
  /\ pc = "load"
  /\ ifile = Len(infiles)
  /\ pc' = "loaded"
  /\ UNCHANGED <<settings, functions, likelihood, namespace, table, polynomial, run, error, rng, tape, iexp, dataset, ana, num,
                 arrays, stdout, inexact, history, migradBias, prevBatch>>

NextTable == TableSeed \/ Blinding \/ InitArrays \/ LoadFile \/ LoadDone

SpecTable == InitTable /\ [][NextTable]_vars

(***************************************************************************)
(* Properties.                                                             *)
(***************************************************************************)

\* C1: every call of the chi-square tail probability, in every iteration and for every
\* Npoints, is passed exactly Npoints - 2 degrees of freedom.
C1_DofIsNpointsMinus2 ==
  \A c \in DOMAIN sfLog : sfLog[c].ndof = Npoints - 2

\* a second iteration has computed a probability for a dataset of 3 points
C1_Witness ==
  /\ Npoints = 3
  /\ \E c \in DOMAIN sfLog : sfLog[c].iexp = 1 /\ sfLog[c].ndof = 1

C4_DegenerateDesignRaises ==
  ("fit" \in ana.bound /\ ana.Delta = 0)
    => /\ pc = "failed" /\ error = "DegenerateDesign"
       /\ ana.alpha0_calc = Unbound /\ ana.alpha1_calc = Unbound
       /\ \A i \in DOMAIN array_alpha0 :
            IsFinite(array_alpha0[i]) /\ IsFinite(array_alpha1[i])

\* C5: with Npoints <= 2 (fewer than 1 degree of freedom) the fit is refused: no tail
\* probability is computed, none is stored, and no iteration of the loop completes.
C5_InsufficientDofRaises ==
  Npoints <= 2
    => /\ sfLog = <<>>
       /\ \A w \in DOMAIN writeLog : writeLog[w].array # "array_Prob"
       /\ ~(iexp >= 0 /\ pc \in {"for", "done"})

\* C6: with a non-positive Npoints or a non-positive sigmay nothing is computed: no
\* random draw is consumed, no slot of a result array is written, no fit is attempted.
C6_InvalidConfigurationRejected ==
  (Npoints <= 0 \/ sigmay.n <= 0)
    => /\ drawLog = <<>>
       /\ writeLog = <<>>
       /\ "fit" \notin ana.bound /\ num.bound = {}
       /\ pc \notin {"fit", "evaluate", "store", "numfit", "print"}

\* C7: a failure ends the execution at once.  The step that raises goes to "failed"
\* without advancing the loop variable or touching the arrays and the output (it is not
\* caught), and no step is ever taken from "failed" (no retry, no later iteration).
C7_FailurePropagates ==
  [][ /\ pc # "failed"
      /\ error' # "" => /\ pc' = "failed"
                         /\ iexp' = iexp
                         /\ UNCHANGED <<arrays, stdout, writeLog>> ]_vars

\* the data generation has failed in the first of two iterations: no dataset was
\* generated and no slot was written
C7_Witness ==
  /\ pc = "failed" /\ error = "ValueError"
  /\ Nexp = 2 /\ iexp = 0 /\ genLog = <<>> /\ writeLog = <<>>

\* C8: the slots are written in increasing index order, the four arrays of an index
\* together and each slot once; when the loop has finished, slot i of each array holds
\* the value obtained from the i-th dataset generated (the analytical results in
\* AnalyticalLinearFit, the results of the numerical fit in ChiSquareTest).
C8_SlotsHoldResultsInOrder ==
  /\ \A w \in DOMAIN writeLog :
       /\ writeLog[w].index = (w - 1) \div 4
       /\ writeLog[w].array =
            <<"array_alpha0", "array_alpha1", "array_Chi2", "array_Prob">>[((w - 1) % 4) + 1]
  /\ pc = "done" =>
       /\ Len(writeLog) = 4 * Max(Nexp, 0)
       /\ Len(genLog) = Max(Nexp, 0)
       /\ \A i \in 0 .. Nexp - 1 :
            /\ genLog[i + 1].iexp = i
            /\ LET xs  == Arange1(Npoints)
                    ys  == genLog[i + 1].y
                    eys == Vals(GenerateEy(sigmay, xs))
                IN  IF notebook = "AnalyticalLinearFit"
                    THEN LET f    == AnalyticalFit(xs, ys, sigmay)
                             chi2 == Chi2Loop(Lift(f.alpha0_calc.v), Lift(f.alpha1_calc.v),
                                              xs, ys, eys, Npoints).v
                         IN  /\ array_alpha0[i] = f.alpha0_calc.v
                             /\ array_alpha1[i] = f.alpha1_calc.v
                             /\ array_Chi2[i] = chi2
                             /\ array_Prob[i] = Chi2Sf(chi2, Ndof(Npoints))
                    ELSE LET r == MigradResult(xs, ys, eys, sigmay, migradBias)
                         IN  /\ array_alpha0[i] = r.alpha0_fit
                             /\ array_alpha1[i] = r.alpha1_fit
                             /\ array_Chi2[i] = r.Chi2_fit
                             /\ array_Prob[i] = Chi2Sf(r.Chi2_fit, Ndof(Npoints))

\* a loop over two different datasets of three points has finished with different results
C8_Witness ==
  /\ pc = "done" /\ Nexp = 2 /\ Npoints = 3
  /\ genLog[1].y # genLog[2].y
  /\ array_alpha0[0] # array_alpha0[1]
  /\ array_Chi2[0] # array_Chi2[1]

\* C9: a second execution with the same seed and the same settings, when it finishes,
\* has produced the same four result arrays as the first, entry by entry.
C9_SameSeedSameBatch ==
  (run = 2 /\ pc = "done") => arrays = prevBatch

\* the second execution has finished two iterations on noisy data with different results
C9_Witness ==
  /\ run = 2 /\ pc = "done" /\ Nexp = 2 /\ Npoints = 3
  /\ \E i \in 1 .. 3 : genLog[1].noise[i] # Zero
  /\ array_alpha0[0] # array_alpha0[1]

\* C10: the n-th Gaussian draw of the seeded stream is consumed by the data generation
\* of iteration (n - 1) \div Npoints, the draws are consumed in stream order, every
\* iteration consumes exactly Npoints of them, and the position of the generator moves
\* with these draws only (the fits and the evaluation consume none).
C10_DrawsInFixedOrder ==
  /\ \A n \in DOMAIN drawLog :
       /\ drawLog[n].pos = n
       /\ drawLog[n].stream = SeedOf(notebook)
       /\ drawLog[n].at = "generate"
       /\ drawLog[n].iexp = (n - 1) \div Npoints
  /\ pc # "seed" => rng = [stream |-> SeedOf(notebook), pos |-> Len(drawLog)]
  /\ pc = "generate" => Len(drawLog) = iexp * Npoints
  /\ pc \in {"fit", "evaluate", "store", "numfit", "print", "for", "done"}
       => Len(drawLog) = (iexp + 1) * Npoints

\* the second iteration has drawn its three values after the three of the first
C10_Witness ==
  /\ Npoints = 3 /\ iexp = 1 /\ pc = "numfit"
  /\ Len(drawLog) = 6
  /\ drawLog[4].iexp = 1 /\ drawLog[3].iexp = 0

\* C11: every dataset generated has exactly Npoints observations, with abscissae
\* 1, 2, ..., Npoints and the uncertainty sigmay on every point; x and the
\* uncertainties are therefore the same in every iteration.
C11_DatasetShape ==
  \A g \in DOMAIN genLog :
    /\ Len(genLog[g].x) = Npoints
    /\ Len(genLog[g].y) = Npoints
    /\ Len(genLog[g].ey) = Npoints
    /\ \A i \in 1 .. Npoints : genLog[g].x[i] = i /\ genLog[g].ey[i] = sigmay
    /\ genLog[g].x = genLog[1].x
    /\ genLog[g].ey = genLog[1].ey

\* two datasets of three points have been generated that differ in y
C11_Witness ==
  /\ Len(genLog) = 2 /\ Npoints = 3
  /\ genLog[1].y # genLog[2].y
  /\ genLog[2].x = <<1, 2, 3>>

\* C12: every fit result stored by the loop has a chi-square that is a number >= 0, a
\* number of degrees of freedom >= 1 and a tail probability in [0, 1] (not nan).
C12_StoredResultsInRange ==
  /\ \A i \in 0 .. (Len(writeLog) \div 4) - 1 :
       /\ IsFinite(array_Chi2[i]) /\ array_Chi2[i].n >= 0
       /\ array_Prob[i].tag \in {"one", "zero", "sf"}
  /\ writeLog # <<>> => \A c \in DOMAIN sfLog : sfLog[c].ndof >= 1

C16_ReturnsCube ==
  fxResult # NotCalled
    => /\ fxResult.state = "returned"
       /\ fxResult.value =
            IF fxArg.type = "int"
            THEN PyInt(fxArg.v.n * fxArg.v.n * fxArg.v.n)
            ELSE PyFloat(FMul(FMul(Lift(fxArg.v), Lift(fxArg.v)), Lift(fxArg.v)).v)

\* the rows of all files, in the order of the files
RECURSIVE AllRows(_)
AllRows(files) == IF files = <<>> THEN <<>> ELSE Head(files) \o AllRows(Tail(files))

\* the loaded lengths of both columns with the file values they were read from
LoadedLengths ==
  {<<L30cm[k], loadLog[k].L30cm>> : k \in DOMAIN L30cm}
    \cup {<<L2m[k], loadLog[k].L2m>> : k \in DOMAIN L2m}

\* C17 as stated: the offset is one constant, so the difference of any two loaded lengths
\* equals the difference of the raw file values.
C17_DifferencesPreserved ==
  \A p \in LoadedLengths : \A q \in LoadedLengths :
    RSub(p[1], q[1]) = RSub(p[2], q[2])

\* the sum raw + blinding is a float
AddsExactly(raw) == ~FAdd(Lift(raw), Lift(blinding)).ix

\* C17 (amended): the offset is drawn at most once (one Gaussian draw when blinded, no
\* draw and value 0 when not); every loaded 30cm and 2m length of every file is the float
\* sum of its file value and that one offset; the uncertainty columns are the file values;
\* the difference of two loaded lengths equals the difference of the file values when the
\* analysis is not blinded and whenever both sums are exact, and otherwise only up to the
\* rounding of the two sums.
C17_OneOffsetUpToRounding ==
  /\ pc \in {"seed", "blinding"} => drawLog = <<>> /\ blinding = Unbound
  /\ pc \in {"arrays", "load", "loaded"} =>
       /\ Len(drawLog) = IF blinded THEN 1 ELSE 0
       /\ ~blinded => blinding = Zero
       /\ blinded =>
            /\ drawLog[1] = [iexp |-> -1, stream |-> 42, pos |-> 1, at |-> "blinding"]
            /\ blinding = Fl(RMul(Fl(Rat(1, 10)), tape[42][1]))
       /\ Len(L30cm) = Len(loadLog) /\ Len(eL30cm) = Len(loadLog)
       /\ Len(L2m) = Len(loadLog) /\ Len(eL2m) = Len(loadLog)
       /\ \A k \in DOMAIN loadLog :
            /\ L30cm[k] = Fl(RAdd(loadLog[k].L30cm, blinding))
            /\ L2m[k] = Fl(RAdd(loadLog[k].L2m, blinding))
            /\ eL30cm[k] = loadLog[k].eL30cm
            /\ eL2m[k] = loadLog[k].eL2m
       /\ \A p \in LoadedLengths : \A q \in LoadedLengths :
            (~blinded \/ (AddsExactly(p[2]) /\ AddsExactly(q[2])))
              => RSub(p[1], q[1]) = RSub(p[2], q[2])
  /\ pc = "loaded" => loadLog = AllRows(infiles)

\* blinded, a non-zero offset, two files loaded, among them lengths whose difference the
\* offset changed
C17_Witness ==
  /\ pc = "loaded" /\ blinded /\ blinding # Zero /\ Len(infiles) = 2
  /\ \E p \in LoadedLengths : \E q \in LoadedLengths : RSub(p[1], q[1]) # RSub(p[2], q[2])
  /\ \E p \in LoadedLengths : \E q \in LoadedLengths :
        p[2] # q[2] /\ RSub(p[1], q[1]) = RSub(p[2], q[2])

\* C18: for every dataset Delta = Sxx*S - Sx^2 is non-negative, and zero only if all
\* x_i are identical; for the generated abscissae x = 1..Npoints with Npoints >= 2 it is
\* strictly positive.
C18_DeltaNonNegative ==
  "fit" \in ana.bound =>
    /\ ana.Delta >= 0
    /\ ana.Delta = 0 => \A i \in DOMAIN x : \A j \in DOMAIN x : x[i] = x[j]
    /\ (Npoints >= 2 /\ x = [i \in 1 .. Npoints |-> i]) => ana.Delta > 0

\* the fit of the generated abscissae 1, 2: Delta = 5 * 2 - 3 * 3
C18_Witness ==
  "fit" \in ana.bound /\ Npoints = 2 /\ x = <<1, 2>> /\ ana.Delta = 1

\* the steps an iteration has been through, as the histories record them
Generated(i) == \E k \in DOMAIN genLog : genLog[k].iexp = i

Evaluated(i) == \E k \in DOMAIN sfLog : sfLog[k].iexp = i

Stored(i) == \E k \in DOMAIN writeLog : writeLog[k].index = i

\* the fit results held are those of the dataset held
Fitted ==
  IF notebook = "AnalyticalLinearFit"
  THEN /\ "fit" \in ana.bound
       /\ ana.alpha0_calc = AnalyticalFit(x, y, sigmay).alpha0_calc.v
       /\ ana.alpha1_calc = AnalyticalFit(x, y, sigmay).alpha1_calc.v
  ELSE /\ "numfit" \in num.bound
       /\ num.alpha0_fit = MigradResult(x, y, ey, sigmay, migradBias).alpha0_fit
       /\ num.alpha1_fit = MigradResult(x, y, ey, sigmay, migradBias).alpha1_fit

\* the step of the loop a transition takes
GenerateStep == Len(genLog') > Len(genLog)

FitStep == pc = (IF notebook = "AnalyticalLinearFit" THEN "fit" ELSE "numfit") /\ pc' # pc

EvaluateStep == Len(sfLog') > Len(sfLog) /\ ~Stored(iexp)

StoreStep == Len(writeLog') > Len(writeLog)

NextIteration == iexp' # iexp /\ run' = run

\* C19: within an iteration the steps run in the order generate, fit, evaluate, store, and
\* no step of an iteration happens before the store of the iteration before it.
\*  - the dataset of iteration iexp is generated when every earlier iteration has been
\*    stored and nothing of this one has happened;
\*  - the fit runs on the dataset generated in this iteration, before its evaluation;
\*  - chi-square and probability are evaluated after the fit of this dataset (in
\*    ChiSquareTest on the result the fit returns), before the store;
\*  - the store follows generation, fit and evaluation of this iteration;
\*  - the loop goes to iteration iexp + 1 only when iteration iexp has been stored.
C19_StepsInOrder ==
  [][ /\ GenerateStep =>
           /\ Len(genLog) = iexp /\ Len(writeLog) = 4 * iexp
           /\ \A i \in 0 .. iexp - 1 : Generated(i) /\ Evaluated(i) /\ Stored(i)
           /\ ~Generated(iexp) /\ ~Evaluated(iexp) /\ ~Stored(iexp)
      /\ FitStep =>
           /\ Generated(iexp) /\ ~Evaluated(iexp) /\ ~Stored(iexp)
           /\ genLog[Len(genLog)].iexp = iexp
           /\ genLog[Len(genLog)].x = x /\ genLog[Len(genLog)].y = y
      /\ EvaluateStep =>
           /\ Generated(iexp) /\ ~Evaluated(iexp)
           /\ IF notebook = "AnalyticalLinearFit"
              THEN Fitted
              ELSE /\ FitStep
                   /\ sfLog'[Len(sfLog')].chi2 = num'.Chi2_fit
                   /\ num'.Chi2_fit = MigradResult(x, y, ey, sigmay, migradBias).Chi2_fit
      /\ StoreStep =>
           /\ Generated(iexp) /\ Fitted /\ Evaluated(iexp) /\ ~Stored(iexp)
           /\ Len(writeLog) = 4 * iexp
      /\ NextIteration =>
           /\ iexp' = iexp + 1
           /\ iexp >= 0 => Generated(iexp) /\ Evaluated(iexp) /\ Stored(iexp)
           /\ ~Generated(iexp') /\ ~Evaluated(iexp') /\ ~Stored(iexp')
    ]_vars

\* the second iteration has been generated, fitted, evaluated and stored after the first
C19_Witness ==
  /\ iexp = 1 /\ pc = "print" /\ Npoints = 3
  /\ Generated(0) /\ Evaluated(0) /\ Stored(0)
  /\ Generated(1) /\ Evaluated(1) /\ Stored(1) /\ Fitted
  /\ genLog[1].y # genLog[2].y

\* the sums of x = 1..N in closed form
SumX(N) == (N * (N + 1)) \div 2

SumXX(N) == (N * (N + 1) * (2 * N + 1)) \div 6

\* sigmay * sqrt(numerator / Delta) for the abscissae 1..N, from N and sigmay alone
SigmaOfDesign(N, sig, numerator) ==
  FMul(Lift(sig), FSqrt(FDiv(FromInt(numerator),
                             FromInt(SumXX(N) * N - SumX(N) * SumX(N))))).v

\* C20: sigma_alpha0_calc and sigma_alpha1_calc depend only on the x values and sigmay,
\* never on y: whenever they are bound they are sigmay * sqrt(Sxx / Delta) and
\* sigmay * sqrt(S / Delta) of the abscissae 1..Npoints, every printed row of a batch
\* shows the same two values, and no step of a batch changes them once they are bound.
C20_SigmaIndependentOfY ==
  /\ [](( notebook = "AnalyticalLinearFit" /\ "fit" \in ana.bound ) =>
           /\ ana.sigma_alpha0_calc = SigmaOfDesign(Npoints, sigmay, SumXX(Npoints))
           /\ ana.sigma_alpha1_calc = SigmaOfDesign(Npoints, sigmay, Npoints)
           /\ \A k \in DOMAIN stdout :
                /\ stdout[k][2] = Fmt3(ana.sigma_alpha0_calc)
                /\ stdout[k][4] = Fmt3(ana.sigma_alpha1_calc)
                /\ stdout[k][2] = stdout[1][2] /\ stdout[k][4] = stdout[1][4])
  /\ [][ ("fit" \in ana.bound /\ run' = run) =>
            /\ ana'.sigma_alpha0_calc = ana.sigma_alpha0_calc
            /\ ana'.sigma_alpha1_calc = ana.sigma_alpha1_calc ]_vars

\* the second fit of a batch, on a dataset with other y than the first, has given the
\* uncertainties the first row printed
C20_Witness ==
  /\ notebook = "AnalyticalLinearFit" /\ Npoints = 3 /\ sigmay = Rat(2, 1)
  /\ iexp = 1 /\ pc = "evaluate"
  /\ genLog[1].y # genLog[2].y
  /\ Len(stdout) = 1
  /\ ana.sigma_alpha0_calc.d > 0 /\ ana.sigma_alpha0_calc.n > 0
  /\ stdout[1][2] = Fmt3(ana.sigma_alpha0_calc)
  /\ ana.alpha0_calc # stdout[1][1]

(***************************************************************************)
(* The histogram helper functions of                                       *)
(*   Week4/original/RandomDigitsTest/RandomDigitsTest_original.ipynb       *)
(* each called once on arguments drawn from small sets.  A histogram is    *)
(* the pair (counts, bin_edges) that plt.hist returns, the counts being    *)
(* float64 values; arrays are sequences.                                   *)
(***************************************************************************)
HistBins == 3         \* number of bins of the histograms explored
MaxCount == 2         \* largest bin count of the histograms explored
MaxPoints == 2        \* largest number of points given to calculate_chi2

\* a[mask]: numpy indexing with a boolean array
RECURSIVE BoolIndex(_, _)
BoolIndex(a, mask) ==
  IF Len(a) = 0 THEN <<>>
  ELSE LET n    == Len(a)
           head == BoolIndex(SubSeq(a, 1, n - 1), SubSeq(mask, 1, n - 1))
       IN  IF mask[n] THEN Append(head, a[n]) ELSE head

\* counts >= 0 in place of counts > 0: empty bins are kept
CountsNotNegative(counts) == [i \in DOMAIN counts |-> RLeq(Zero, counts[i])]

\* mask2 = counts > 0
CountsPositive(counts) == [i \in DOMAIN counts |-> RLess(Zero, counts[i])]

\* called with both range limits, as the notebook does
get_bincenter_and_counts_in_range(hist, xmin, xmax) ==
  LET counts      == hist.counts
      bin_edges   == hist.bin_edges
      bin_centers == [i \in 1 .. Len(bin_edges) - 1 |->
                        FMul(Lift(Rat(1, 2)), FAdd(Lift(bin_edges[i + 1]), Lift(bin_edges[i]))).v]
      mask1       == [i \in DOMAIN bin_centers |->
                        RLess(xmin, bin_centers[i]) /\ RLeq(bin_centers[i], xmax)]
      mask2       == CountsPositive(counts)
      mask_final  == [i \in DOMAIN mask1 |-> mask1[i] /\ mask2[i]]
      kept        == BoolIndex(counts, mask_final)
  IN  [state |-> "returned",
       value |-> <<BoolIndex(bin_centers, mask_final), kept,
                   [i \in DOMAIN kept |-> FSqrt(Lift(kept[i])).v]>>]

get_chi2_ndf(hist, const) ==
  LET data           == Lifted(hist.counts)
      const_unnormed == FMul(Lift(const), NpSum(data))
      terms          == [i \in DOMAIN data |->
                           FDiv(FSquare(FSub(data[i], const_unnormed)), data[i])]
  IN  [state |-> "returned", value |-> <<NpSum(terms).v, Len(data)>>]

\* the argument `function` of calculate_chi2: a model evaluated at x with the fit
\* parameters, here a constant or a straight line
Functions == {"constant", "line"}

CallFunction(function, xv, fitparameters) ==
  IF function = "constant" THEN Lift(fitparameters[1])
  ELSE FAdd(Lift(fitparameters[1]), FMul(Lift(fitparameters[2]), Lift(xv)))

\* y_values >= 0 in place of y_values > 0
YNotNegative(y_values) == [i \in DOMAIN y_values |-> RLeq(Zero, y_values[i])]

\* mask = (y_values > 0)
YPositive(y_values) == [i \in DOMAIN y_values |-> RLess(Zero, y_values[i])]

\* the "traditional loop-version": the values of chi2_val and entries after the loop
RECURSIVE LoopVersion(_, _, _, _, _)
LoopVersion(function, x_values, y_values, sy_values, fitparameters) ==
  IF Len(x_values) = 0 THEN [chi2_val |-> Lift(Zero), entries |-> 0]
  ELSE LET n      == Len(x_values)
           before == LoopVersion(function, SubSeq(x_values, 1, n - 1),
                                 SubSeq(y_values, 1, n - 1), SubSeq(sy_values, 1, n - 1),
                                 fitparameters)
       IN  IF RLess(Zero, y_values[n])
           THEN LET f        == CallFunction(function, x_values[n], fitparameters)
                    residual == FDiv(FSub(Lift(y_values[n]), f), Lift(sy_values[n]))
                IN  [chi2_val |-> FAdd(before.chi2_val, FSquare(residual)),
                     entries  |-> before.entries + 1]
           ELSE before

\* the "numpy version": the values that overwrite chi2_val and entries
NumpyVersion(function, x_values, y_values, sy_values, fitparameters) ==
  LET mask  == YPositive(y_values)
      yhat  == [i \in DOMAIN x_values |-> CallFunction(function, x_values[i], fitparameters)]
      ym    == BoolIndex(y_values, mask)
      yhatm == BoolIndex(yhat, mask)
      sym   == BoolIndex(sy_values, mask)
      terms == [i \in DOMAIN ym |->
                  FDiv(FSquare(FSub(Lift(ym[i]), yhatm[i])), FSquare(Lift(sym[i])))]
  IN  [chi2_val |-> NpSum(terms),
       entries  |-> Cardinality({i \in DOMAIN mask : mask[i]})]

calculate_chi2(function, x_values, y_values, sy_values, fitparameters) ==
  LET loop  == LoopVersion(function, x_values, y_values, sy_values, fitparameters)
      numpy == NumpyVersion(function, x_values, y_values, sy_values, fitparameters)
  IN  [state |-> "returned", loop |-> loop, numpy |-> numpy,
       value |-> <<numpy.chi2_val.v, numpy.entries>>]

\* the histograms explored: HistBins bins of width 1 from 0, every count in 0..MaxCount
Histograms ==
  {[counts |-> c, bin_edges |-> [i \in 1 .. HistBins + 1 |-> Rat(i - 1, 1)]] :
     c \in [1 .. HistBins -> {Rat(k, 1) : k \in 0 .. MaxCount}]}

\* range limits on the bin edges and on the bin centres
RangeLimits == {Rat(k, 2) : k \in 0 .. 2 * HistBins}

\* the points explored: a bin centre, a count and the square root of a count
Points ==
  {[x |-> Rat(i, 1), y |-> Rat(k, 1), sy |-> FSqrt(Lift(Rat(c, 1))).v] :
     i \in 0 .. 1, k \in 0 .. MaxCount, c \in 2 .. 3}

PointArrays == UNION {[1 .. n -> Points] : n \in 0 .. MaxPoints}

FitParameters == {<<Zero, Zero>>, <<Rat(1, 2), One>>, <<Rat(1, 2), Rat(1, 2)>>}

FunctionCalls ==
  {[fn |-> "get_bincenter_and_counts_in_range", hist |-> h, xmin |-> lo, xmax |-> hi] :
     h \in Histograms, lo \in RangeLimits, hi \in RangeLimits}
  \cup {[fn |-> "get_chi2_ndf", hist |-> h, const |-> c] :
          h \in Histograms, c \in {Rat(1, 2), Rat(1, 4), One}}
  \cup {[fn |-> "calculate_chi2", function |-> f,
         x_values |-> [i \in DOMAIN p |-> p[i].x],
         y_values |-> [i \in DOMAIN p |-> p[i].y],
         sy_values |-> [i \in DOMAIN p |-> p[i].sy],
         fitparameters |-> fp] :
          f \in Functions, p \in PointArrays, fp \in FitParameters}

InitFunctions ==
  /\ notebook = "RandomDigitsTest"
  /\ pc = "functions"
  /\ rng = FreshRng(1)
  /\ tape = [st \in Streams |-> EntropyStream(1)]
  /\ drawLog = <<>>
  /\ LoopUnbound
  /\ TableUnbound
  /\ PolynomialUnbound
  /\ LikelihoodUnbound
  /\ NamespaceUnbound
  /\ fnArgs \in FunctionCalls
  /\ fnResult = [state |-> "not called"]

Returns(result) ==
  /\ pc = "functions"
  /\ fnResult.state = "not called"
  /\ fnResult' = result
  /\ UNCHANGED <<settings, likelihood, namespace, table, polynomial, fnArgs, run, pc, error,
                 rng, tape, iexp, dataset, ana, num, arrays, stdout, inexact, history,
                 migradBias, prevBatch>>

CallGetBincenterAndCountsInRange ==
  /\ fnArgs.fn = "get_bincenter_and_counts_in_range"
  /\ Returns(get_bincenter_and_counts_in_range(fnArgs.hist, fnArgs.xmin, fnArgs.xmax))

CallGetChi2Ndf ==
  /\ fnArgs.fn = "get_chi2_ndf"
  /\ Returns(get_chi2_ndf(fnArgs.hist, fnArgs.const))

CallCalculateChi2 ==
  /\ fnArgs.fn = "calculate_chi2"
  /\ Returns(calculate_chi2(fnArgs.function, fnArgs.x_values, fnArgs.y_values,
                            fnArgs.sy_values, fnArgs.fitparameters))

NextFunctions == CallGetBincenterAndCountsInRange \/ CallGetChi2Ndf \/ CallCalculateChi2

SpecFunctions == InitFunctions /\ [][NextFunctions]_vars

(***************************************************************************)
(* Properties of the histogram functions.                                  *)
(***************************************************************************)
\* the centre of bin b, as a rational number
CentreOf(hist, b) == RDiv(RAdd(hist.bin_edges[b], hist.bin_edges[b + 1]), Rat(2, 1))

\* the bins whose centre lies in (xmin, xmax] and whose count is > 0
BinsInRange(hist, xmin, xmax) ==
  {b \in 1 .. Len(hist.counts) :
     /\ RLess(xmin, CentreOf(hist, b)) /\ RLeq(CentreOf(hist, b), xmax)
     /\ hist.counts[b].n > 0}

C27_FiniteChi2 ==
  ( /\ fnArgs.fn = "get_chi2_ndf" /\ fnResult.state = "returned"
    /\ \A b \in DOMAIN fnArgs.hist.counts : fnArgs.hist.counts[b].n >= 0
    /\ \E b \in DOMAIN fnArgs.hist.counts : fnArgs.hist.counts[b].n > 0 ) =>
     /\ IsFinite(fnResult.value[1]) /\ fnResult.value[1].n >= 0
     /\ fnResult.value[2] = Len(fnArgs.hist.counts)

\* get_chi2_ndf on a histogram without an empty bin: the chi-square is finite
C27_NoEmptyBin ==
  /\ fnArgs.fn = "get_chi2_ndf" /\ fnResult.state = "returned"
  /\ \A b \in DOMAIN fnArgs.hist.counts : fnArgs.hist.counts[b].n > 0
  /\ IsFinite(fnResult.value[1]) /\ fnResult.value[1].n > 0

\* get_chi2_ndf on a histogram with an empty bin: the term of that bin is
\* (0 - const_unnormed)^2 / 0 and the chi-square is inf
C27_EmptyBinGivesInf ==
  /\ fnArgs.fn = "get_chi2_ndf" /\ fnResult.state = "returned"
  /\ fnArgs.hist.counts = <<One, Zero, One>> /\ fnArgs.const = Rat(1, 2)
  /\ fnResult.value = <<Inf, 3>>

\* the sum over the points with y > 0 of ((y - f(x)) / sy)^2, in exact arithmetic
RECURSIVE ExactChi2(_, _, _, _, _)
ExactChi2(function, x_values, y_values, sy_values, fitparameters) ==
  IF Len(x_values) = 0 THEN Zero
  ELSE LET n      == Len(x_values)
           before == ExactChi2(function, SubSeq(x_values, 1, n - 1), SubSeq(y_values, 1, n - 1),
                               SubSeq(sy_values, 1, n - 1), fitparameters)
           f      == IF function = "constant" THEN fitparameters[1]
                     ELSE RAdd(fitparameters[1], RMul(fitparameters[2], x_values[n]))
           r      == RDiv(RSub(y_values[n], f), sy_values[n])
       IN  IF y_values[n].n > 0 THEN RAdd(before, RMul(r, r)) ELSE before

\* |a - b| <= 2^(3 - MantBits) * max(a, b) for non-negative a, b
CloseTo(a, b) ==
  /\ IsFinite(a) /\ IsFinite(b)
  /\ LET diff == RSub(a, b)
         big  == IF RLess(a, b) THEN b ELSE a
     IN  RLeq(RMul([n |-> Abs(diff.n), d |-> diff.d], Rat(Pow2(MantBits - 3), 1)), big)

CalculateChi2Returned == fnArgs.fn = "calculate_chi2" /\ fnResult.state = "returned"

\* C25 as stated: the loop version and the numpy version of calculate_chi2 compute
\* the same pair (chi2, entries) for every input, and the returned pair is the loop
\* version's result.
C25_VersionsEqual ==
  CalculateChi2Returned =>
     /\ fnResult.loop.chi2_val.v = fnResult.numpy.chi2_val.v
     /\ fnResult.loop.entries = fnResult.numpy.entries
     /\ fnResult.value = <<fnResult.loop.chi2_val.v, fnResult.loop.entries>>

\* C25 amended: both versions count the points with y > 0; both compute the sum over
\* these points of ((y - f(x))/sy)^2, the loop as ((y - f)/sy)^2 and the numpy version
\* as (y - f)^2 / sy^2, so each equals the exact sum when none of its operations
\* rounds and the two agree to within a few units of the last place otherwise; the
\* returned pair is the numpy version's result.
C25_VersionsAgreeUpToRounding ==
  CalculateChi2Returned =>
     LET exact == ExactChi2(fnArgs.function, fnArgs.x_values, fnArgs.y_values,
                            fnArgs.sy_values, fnArgs.fitparameters)
         npos  == Cardinality({i \in DOMAIN fnArgs.y_values : fnArgs.y_values[i].n > 0})
     IN  /\ fnResult.loop.entries = npos /\ fnResult.numpy.entries = npos
         /\ ~fnResult.loop.chi2_val.ix => fnResult.loop.chi2_val.v = exact
         /\ ~fnResult.numpy.chi2_val.ix => fnResult.numpy.chi2_val.v = exact
         /\ CloseTo(fnResult.loop.chi2_val.v, fnResult.numpy.chi2_val.v)
         /\ fnResult.value = <<fnResult.numpy.chi2_val.v, fnResult.numpy.entries>>

\* a call on two points with y > 0 in which the two versions round differently: the
\* returned chi-square is the numpy version's and differs from the loop version's
C25_Witness ==
  /\ CalculateChi2Returned
  /\ fnResult.numpy.entries = 2
  /\ fnResult.loop.chi2_val.v # fnResult.numpy.chi2_val.v
  /\ fnResult.value[1] = fnResult.numpy.chi2_val.v

(***************************************************************************)
(* np.exp, np.log and stats.poisson.pmf.  The library functions are        *)
(* evaluated in fixed point with 14 fractional bits (absolute accuracy     *)
(* about 2^-12) and the result is rounded to the floating-point format; as *)
(* in float64, exp underflows to 0 below -745.14 and overflows to inf      *)
(* above 709.78, and log(0) is -inf.                                       *)
(***************************************************************************)
FixOne == Pow2(14)

\* ln(2) * 2^14
Ln2Fix == Pow2(14) - 5027

\* 2^(f / 2^14) * 2^14 for 0 <= f < 2^14, by the Taylor polynomial of degree 5 in
\* Horner form; the coefficients are ln(2)^k / k! * 2^14
Exp2Fix(f) ==
  LET c5 == 22
      c4 == 158 + (c5 * f) \div FixOne
      c3 == 909 + (c4 * f) \div FixOne
      c2 == 3936 + (c3 * f) \div FixOne
      c1 == Ln2Fix + (c2 * f) \div FixOne
  IN  FixOne + (c1 * f) \div FixOne

\* r * 2^k
Scale2(r, k) ==
  IF k >= 0 THEN LET g == GCD(r.d, Pow2(k)) IN Rat(r.n * (Pow2(k) \div g), r.d \div g)
  ELSE LET g == GCD(Abs(r.n), Pow2(-k)) IN Rat(r.n \div g, r.d * (Pow2(-k) \div g))

NpExp(a) ==
  IF IsNaN(a.v) THEN a
  ELSE IF IsInf(a.v) THEN [v |-> IF a.v.n > 0 THEN Inf ELSE Zero, ix |-> a.ix]
  ELSE IF a.v.n = 0 THEN [v |-> One, ix |-> a.ix]
  ELSE IF a.v.n < -746 * a.v.d THEN [v |-> Zero, ix |-> TRUE]
  ELSE IF a.v.n > 710 * a.v.d THEN [v |-> Inf, ix |-> TRUE]
  ELSE LET yfix == (a.v.n * 23637) \div a.v.d       \* 23637 = log2(e) * 2^14
           k    == yfix \div FixOne
           f    == yfix % FixOne
       IN  [v |-> Scale2(Fl(Rat(Exp2Fix(f), FixOne)), k), ix |-> TRUE]

\* the exponent e with 2^e <= n/d < 2^(e+1), for n, d > 0
RECURSIVE Exponent(_, _)
Exponent(n, d) ==
  IF n \div 2 >= d THEN Exponent(n, 2 * d) + 1
  ELSE IF n < d THEN Exponent(2 * n, d) - 1
  ELSE 0

\* ln(m) * 2^FixBits for 1 <= m < 2, from ln(m) = 2 atanh((m - 1)/(m + 1))
LnFix(m) ==
  LET z  == ((m.n - m.d) * FixOne) \div (m.n + m.d)
      z2 == (z * z) \div FixOne
      z3 == (z * z2) \div FixOne
      z5 == (z3 * z2) \div FixOne
      z7 == (z5 * z2) \div FixOne
  IN  2 * (z + z3 \div 3 + z5 \div 5 + z7 \div 7)

\* ln(q) * 2^FixBits for a rational q > 0
LogFix(q) ==
  LET e == Exponent(q.n, q.d)
  IN  e * Ln2Fix + LnFix(Scale2(q, -e))

NpLog(a) ==
  IF IsNaN(a.v) \/ a.v.n < 0 THEN [v |-> NaN, ix |-> a.ix]
  ELSE IF IsInf(a.v) THEN a
  ELSE IF a.v.n = 0 THEN [v |-> RNeg(Inf), ix |-> a.ix]
  ELSE IF a.v = One THEN [v |-> Zero, ix |-> a.ix]
  ELSE [v |-> Fl(Rat(LogFix(a.v), FixOne)), ix |-> TRUE]

\* a < b on float64 values: false when either is nan
NpLess(a, b) ==
  IF IsNaN(a) \/ IsNaN(b) THEN FALSE
  ELSE IF IsInf(a) THEN a.n < 0 /\ ~(IsInf(b) /\ b.n < 0)
  ELSE IF IsInf(b) THEN b.n > 0
  ELSE LET ia == a.n \div a.d
           ib == b.n \div b.d
           g  == GCD(a.d, b.d)
       IN  IF ia # ib THEN ia < ib
           ELSE (a.n % a.d) * (b.d \div g) < (b.n % b.d) * (a.d \div g)

\* special.gammaln(k + 1) = ln(k!)
RECURSIVE LnFactorialFix(_)
LnFactorialFix(k) == IF k <= 1 THEN 0 ELSE LnFactorialFix(k - 1) + LogFix(Rat(k, 1))

GammaLn1p(k) == IF k <= 1 THEN Lift(Zero) ELSE [v |-> Fl(Rat(LnFactorialFix(k), FixOne)), ix |-> TRUE]

\* special.xlogy(k, mu): 0 for k = 0, k * log(mu) otherwise
XLogY(k, mu) == IF k = 0 THEN [v |-> Zero, ix |-> mu.ix] ELSE FMul(FromInt(k), NpLog(mu))

\* stats.poisson.pmf(k, mu) = exp(xlogy(k, mu) - gammaln(k + 1) - mu) for mu >= 0,
\* nan for mu < 0
PoissonPmf(k, mu) ==
  IF IsNaN(mu.v) \/ mu.v.n < 0 THEN [v |-> NaN, ix |-> mu.ix]
  ELSE NpExp(FSub(FSub(XLogY(k, mu), GammaLn1p(k)), mu))

(***************************************************************************)
(* The tau scan of the likelihood notebook ("Principle of Maximum          *)
(* Likelihood"): the histogram of the times, the scan loop with the search *)
(* for the minimum of chi2, bllh and ullh, the +-1 sigma scan of chi2 and  *)
(* the function chisquare.  The settings are scaled down: Nbins bins       *)
(* between 0 and tmax = 2, at most MaxTauSteps + 1 scan points between     *)
(* min_tau and max_tau.  The array t is kept as runs [time, count] of      *)
(* equal values.                                                           *)
(***************************************************************************)
Nbins == 2            \* number of bins of the histogram of the times
MaxTauSteps == 2      \* largest Ntau_steps explored

tmax == Rat(2, 1)

min_tau == Rat(1, 2)

max_tau == Rat(3, 2)

\* 999999.9, the initial chi2_minval, bllh_minval and ullh_minval
InitialMinval == Fl(Rat(9999999, 10))

\* 0.0, the initial chi2_minpos, bllh_minpos and ullh_minpos
InitialMinpos == Zero

\* the edges np.histogram returns: np.linspace(0, tmax, Nbins + 1)
Edges == [i \in 0 .. Nbins |-> Fl(RDiv(RMul(Rat(i, 1), tmax), Rat(Nbins, 1)))]

\* is the time in bin ibin?  The bins are half-open, the last one is closed.
InBin(time, ibin) ==
  /\ RLeq(Edges[ibin], time)
  /\ IF ibin = Nbins - 1 THEN RLeq(time, Edges[ibin + 1]) ELSE RLess(time, Edges[ibin + 1])

\* number of elements of t
RECURSIVE Size(_)
Size(runs) == IF runs = <<>> THEN 0 ELSE runs[1].count + Size(Tail(runs))

\* np.histogram(t, bins=Nbins, range=(0, tmax))[0]: times outside the range are dropped
Histogram(runs) ==
  [ibin \in 0 .. Nbins - 1 |-> Size(SelectSeq(runs, LAMBDA rn : InBin(rn.time, ibin)))]

\* delta_tau = (max_tau - min_tau) / Ntau_steps
DeltaTau(nsteps) == FDiv(FSub(Lift(max_tau), Lift(min_tau)), FromInt(nsteps))

\* tau_hypo = min_tau + itau * delta_tau
TauHypo(i, nsteps) == FAdd(Lift(min_tau), FMul(FromInt(i), DeltaTau(nsteps))).v

\* nexp = Ntimes * (np.exp(-xlow_bin/tau_hypo) - np.exp(-xhigh_bin/tau_hypo))
NexpOf(N, edges, ibin, tau_hypo) ==
  FMul(FromInt(N), FSub(NpExp(FDiv(Lift(RNeg(edges[ibin])), Lift(tau_hypo))),
                        NpExp(FDiv(Lift(RNeg(edges[ibin + 1])), Lift(tau_hypo)))))

\* nobs >= 0 in place of nobs > 0
NobsNotNegative(nobs) == nobs >= 0

\* if (nobs > 0): the bins that add a term to chi2[itau]
NobsPositive(nobs) == nobs > 0

\* the loop over the bins of one scan point, after bins 0..ibin-1: chi2[itau],
\* bllh[itau] and the bins that added a term to each
RECURSIVE BinLoop(_, _, _, _, _)
BinLoop(N, counts, edges, tau_hypo, ibin) ==
  IF ibin = 0 THEN [chi2 |-> Lift(Zero), bllh |-> Lift(Zero), chi2Bins |-> {}, bllhBins |-> {}]
  ELSE LET before == BinLoop(N, counts, edges, tau_hypo, ibin - 1)
           nexp   == NexpOf(N, edges, ibin - 1, tau_hypo)
           nobs   == counts[ibin - 1]
           term   == FDiv(FSquare(FSub(FromInt(nobs), nexp)), FromInt(nobs))
           llh    == FMul(Lift(Rat(-2, 1)), NpLog(PoissonPmf(nobs, nexp)))
       IN  [chi2     |-> IF NobsPositive(nobs) THEN FAdd(before.chi2, term) ELSE before.chi2,
            bllh     |-> FAdd(before.bllh, llh),
            chi2Bins |-> IF NobsPositive(nobs) THEN before.chi2Bins \cup {ibin - 1}
                         ELSE before.chi2Bins,
            bllhBins |-> before.bllhBins \cup {ibin - 1}]

\* acc += term, count times; the sum no longer changes once acc + term = acc
RECURSIVE AddRepeated(_, _, _)
AddRepeated(acc, term, count) ==
  IF count = 0 THEN acc
  ELSE LET next == FAdd(acc, term)
       IN  IF next = acc THEN acc ELSE AddRepeated(next, term, count - 1)

\* the loop over the times of one scan point:
\* ullh[itau] += -2.0*np.log(1.0/tau_hypo*np.exp(-time/tau_hypo))
RECURSIVE TimeLoop(_, _)
TimeLoop(runs, tau_hypo) ==
  IF runs = <<>> THEN Lift(Zero)
  ELSE LET n      == Len(runs)
           before == TimeLoop(SubSeq(runs, 1, n - 1), tau_hypo)
           pdf    == FMul(FDiv(Lift(One), Lift(tau_hypo)),
                          NpExp(FDiv(Lift(RNeg(runs[n].time)), Lift(tau_hypo))))
           term   == FMul(Lift(Rat(-2, 1)), NpLog(pdf))
       IN  AddRepeated(before, term, runs[n].count)

\* if (value < minval): minval = value; minpos = tau_hypo
SearchMin(min, value, tau_hypo) ==
  IF NpLess(value, min.val) THEN [val |-> value, pos |-> tau_hypo] ELSE min

\* one pass of the scan loop body: the arrays at index i and the three minima
ScanPoint(i) ==
  LET tau_hypo == TauHypo(i, Ntau_steps)
      bins     == BinLoop(Ntimes, yExp, xExp_edges, tau_hypo, Nbins)
      sum      == TimeLoop(times, tau_hypo)
  IN  [tau_hypo |-> tau_hypo, chi2 |-> bins.chi2.v, bllh |-> bins.bllh.v, ullh |-> sum.v,
       terms |-> [chi2 |-> bins.chi2Bins, bllh |-> bins.bllhBins]]

\* the loop of the +-1 sigma scan after the points 0..i-1: found_lower, found_upper and
\* the names tau_lower, tau_upper (Unbound while not assigned)
RECURSIVE ErrorLoop(_)
ErrorLoop(i) ==
  IF i = 0 THEN [found_lower |-> FALSE, found_upper |-> FALSE,
                 tau_lower |-> Unbound, tau_upper |-> Unbound]
  ELSE LET before == ErrorLoop(i - 1)
           diff   == FSub(Lift(chi2_arr[i - 1]), Lift(chi2_min.val)).v
           low    == IF ~before.found_lower /\ NpLess(diff, One)
                     THEN [before EXCEPT !.tau_lower = tau[i - 1], !.found_lower = TRUE]
                     ELSE before
       IN  IF low.found_lower /\ ~low.found_upper /\ NpLess(One, diff)
           THEN [low EXCEPT !.tau_upper = tau[i - 1], !.found_upper = TRUE]
           ELSE low

\* both scan end points lie more than 1 above chi2_minval
EndPointsAbove ==
  /\ NpLess(One, FSub(Lift(chi2_arr[0]), Lift(chi2_min.val)).v)
  /\ NpLess(One, FSub(Lift(chi2_arr[Ntau_steps]), Lift(chi2_min.val)).v)

\* the block "if (ScanChi2)": what it prints, or the exception it raises
ErrorScanResult ==
  IF EndPointsAbove
  THEN LET found == ErrorLoop(Ntau_steps + 1)
       IN  IF found.tau_lower = Unbound
           THEN [state |-> "NameError", name |-> "tau_lower"]
           ELSE IF found.tau_upper = Unbound
           THEN [state |-> "NameError", name |-> "tau_upper"]
           ELSE [state |-> "printed", tau_lower |-> found.tau_lower,
                 tau_upper |-> found.tau_upper,
                 lower_error |-> FSub(Lift(chi2_min.pos), Lift(found.tau_lower)).v,
                 upper_error |-> FSub(Lift(found.tau_upper), Lift(chi2_min.pos)).v]
  ELSE [state |-> "error message"]

\* the loop of chisquare after the bins 0..ibin-1
RECURSIVE ChisquareLoop(_, _)
ChisquareLoop(tau_fitted, ibin) ==
  IF ibin = 0 THEN Lift(Zero)
  ELSE LET before == ChisquareLoop(tau_fitted, ibin - 1)
       IN  IF yExp[ibin - 1] > 0
           THEN LET xlow_bin  == xExp_edges[ibin - 1]
                    xhigh_bin == xExp_edges[ibin]
                    nexp      == FMul(FromInt(Ntimes),
                                      FSub(NpExp(FDiv(Lift(RNeg(xlow_bin)), Lift(tau_fitted))),
                                           NpExp(FDiv(Lift(RNeg(xhigh_bin)), Lift(tau_fitted)))))
                IN  FAdd(before, FDiv(FSquare(FSub(FromInt(yExp[ibin - 1]), nexp)),
                                      FromInt(yExp[ibin - 1])))
           ELSE before

\* the loop stops one bin early
chisquareButLastBin(tau_fitted) == ChisquareLoop(tau_fitted, Nbins - 1).v

chisquare(tau_fitted) == ChisquareLoop(tau_fitted, Nbins).v

TimeRun(time, count) == [time |-> time, count |-> count]

\* the data sets explored: no time at all, a few times, samples of an exponential
\* decay with times beyond tmax, and a sample whose times are far beyond tmax
DataSets ==
  { <<>>,
    <<TimeRun(Rat(1, 2), 1)>>,
    <<TimeRun(Rat(1, 2), 1), TimeRun(Rat(3, 2), 1)>>,
    <<TimeRun(Rat(3, 2), 2), TimeRun(Rat(4, 1), 1)>>,
    <<TimeRun(Rat(1, 4), 3), TimeRun(Rat(5, 4), 1)>>,
    <<TimeRun(Rat(1, 2), 2), TimeRun(Rat(4, 1), 2)>>,
    <<TimeRun(Rat(1, 4), 24), TimeRun(One, 10), TimeRun(Rat(7, 4), 4), TimeRun(Rat(4, 1), 2)>>,
    <<TimeRun(Rat(1, 4), 36), TimeRun(One, 16), TimeRun(Rat(7, 4), 6), TimeRun(Rat(4, 1), 6)>>,
    <<TimeRun(Rat(1, 4), 40), TimeRun(One, 15), TimeRun(Rat(7, 4), 6), TimeRun(Rat(4, 1), 3)>>,
    <<TimeRun(Rat(1, 2), 1), TimeRun(Rat(2048, 1), 16383)>> }

\* the notebook after the cells that make the data, the histogram, the scan settings,
\* the initial minima and the arrays
InitScan ==
  /\ notebook = "Likelihood"
  /\ pc = "scan"
  /\ rng = FreshRng(1)
  /\ tape = [st \in Streams |-> EntropyStream(1)]
  /\ drawLog = <<>>
  /\ LoopUnbound
  /\ TableUnbound
  /\ PolynomialUnbound
  /\ FunctionsUnbound
  /\ NamespaceUnbound
  /\ times \in DataSets
  /\ Ntimes = Size(times)
  /\ yExp = Histogram(times)
  /\ xExp_edges = Edges
  /\ Ntau_steps \in 1 .. MaxTauSteps
  /\ itau = 0
  /\ chi2_min = [val |-> InitialMinval, pos |-> InitialMinpos]
  /\ bllh_min = [val |-> InitialMinval, pos |-> InitialMinpos]
  /\ ullh_min = [val |-> InitialMinval, pos |-> InitialMinpos]
  /\ tau = Zeros(Ntau_steps + 1, Zero) /\ chi2_arr = Zeros(Ntau_steps + 1, Zero)
  /\ bllh_arr = Zeros(Ntau_steps + 1, Zero) /\ ullh_arr = Zeros(Ntau_steps + 1, Zero)
  /\ termLog = <<>>
  /\ errScan = [state |-> "not run"]
  /\ fval_fit = [state |-> "not called"]

ScanUnchanged ==
  UNCHANGED <<settings, functions, namespace, table, polynomial, run, rng, tape, iexp,
              dataset, ana, num, arrays, stdout, inexact, history, migradBias, prevBatch,
              Ntimes, times, yExp, xExp_edges, Ntau_steps>>

\* one iteration of "for itau in range(Ntau_steps+1)"
ScanStep ==
  /\ pc = "scan"
  /\ itau <= Ntau_steps
  /\ \E p \in {ScanPoint(itau)} :
       /\ tau' = [tau EXCEPT ![itau] = p.tau_hypo]
       /\ chi2_arr' = [chi2_arr EXCEPT ![itau] = p.chi2]
       /\ bllh_arr' = [bllh_arr EXCEPT ![itau] = p.bllh]
       /\ ullh_arr' = [ullh_arr EXCEPT ![itau] = p.ullh]
       /\ chi2_min' = SearchMin(chi2_min, p.chi2, p.tau_hypo)
       /\ bllh_min' = SearchMin(bllh_min, p.bllh, p.tau_hypo)
       /\ ullh_min' = SearchMin(ullh_min, p.ullh, p.tau_hypo)
       /\ termLog' = Append(termLog, p.terms)
  /\ itau' = itau + 1
  /\ pc' = IF itau = Ntau_steps THEN "errors" ELSE "scan"
  /\ UNCHANGED <<error, errScan, fval_fit>>
  /\ ScanUnchanged

\* the cell "if (ScanChi2)"
ErrorScan ==
  /\ pc = "errors"
  /\ \E res \in {ErrorScanResult} :
       /\ errScan' = res
       /\ error' = IF res.state = "NameError" THEN "NameError" ELSE error
       /\ pc' = IF res.state = "NameError" THEN "raised" ELSE "chisquare"
  /\ UNCHANGED <<itau, tau, chi2_arr, bllh_arr, ullh_arr, chi2_min, bllh_min, ullh_min,
                 termLog, fval_fit>>
  /\ ScanUnchanged

\* fval_fit = chisquare(minpos); minpos is the value of tau a minimiser returned
CallChisquare ==
  /\ pc = "chisquare"
  /\ \E minpos \in {tau[k] : k \in 0 .. Ntau_steps} \cup {Rat(3, 4)} :
       fval_fit' = [state |-> "returned", tau_fitted |-> minpos, value |-> chisquare(minpos)]
  /\ pc' = "done"
  /\ UNCHANGED <<itau, tau, chi2_arr, bllh_arr, ullh_arr, chi2_min, bllh_min, ullh_min,
                 termLog, errScan, error>>
  /\ ScanUnchanged

NextScan == ScanStep \/ ErrorScan \/ CallChisquare

SpecScan == InitScan /\ [][NextScan]_vars

(***************************************************************************)
(* Properties of the tau scan.                                             *)
(***************************************************************************)
ScanPoints == 0 .. Ntau_steps

ScanComplete == notebook = "Likelihood" /\ pc # "scan"

\* is arr[i] a minimum of the array?
IsMinimumAt(arr, i) == \A j \in DOMAIN arr : ~NpLess(arr[j], arr[i])

\* the first scan index that attains the minimum of the array
FirstMinimum(arr) ==
  CHOOSE i \in DOMAIN arr : IsMinimumAt(arr, i) /\ \A j \in DOMAIN arr : j < i => arr[j] # arr[i]

\* the tracked minimum is the minimum of the array, at the tau of the first index
\* that attains it
Tracks(min, arr) ==
  /\ min.val = arr[FirstMinimum(arr)]
  /\ min.pos = tau[FirstMinimum(arr)]

\* C21: after the tau scan completes, for each of chi2, bllh and ullh and for every
\* input data set, the tracked minimum value is the minimum of the statistic's array
\* over all Ntau_steps + 1 scan points and the tracked position is the tau of the
\* first scan index attaining it.
C21_TrackedMinimum ==
  ScanComplete =>
     /\ Tracks(chi2_min, chi2_arr)
     /\ Tracks(bllh_min, bllh_arr)
     /\ Tracks(ullh_min, ullh_arr)

\* whenever some scan value of a statistic is below the initial minval 999999.9, the
\* tracked minimum is the minimum of the array at the first index attaining it
C21_TrackedWhenBelowInitial ==
  ScanComplete =>
     /\ (\E i \in ScanPoints : NpLess(chi2_arr[i], InitialMinval)) => Tracks(chi2_min, chi2_arr)
     /\ (\E i \in ScanPoints : NpLess(bllh_arr[i], InitialMinval)) => Tracks(bllh_min, bllh_arr)
     /\ (\E i \in ScanPoints : NpLess(ullh_arr[i], InitialMinval)) => Tracks(ullh_min, ullh_arr)

\* a completed scan in which the three minima are found, the one of chi2 not at the
\* first scan point
C21_MinimumFound ==
  /\ ScanComplete /\ Ntau_steps = 2
  /\ Tracks(chi2_min, chi2_arr) /\ Tracks(bllh_min, bllh_arr) /\ Tracks(ullh_min, ullh_arr)
  /\ chi2_min.pos = tau[1] /\ NpLess(chi2_arr[1], chi2_arr[0])

\* a completed scan in which every chi2 value is above 999999.9 and every bllh and
\* ullh value is inf: the tracked minima still are 999999.9 at tau = 0.0
C21_InitialValuesKept ==
  /\ ScanComplete
  /\ \A i \in ScanPoints : NpLess(InitialMinval, chi2_arr[i]) /\ IsFinite(chi2_arr[i])
  /\ \A i \in ScanPoints : bllh_arr[i] = Inf /\ ullh_arr[i] = Inf
  /\ chi2_min = [val |-> InitialMinval, pos |-> InitialMinpos]
  /\ bllh_min = [val |-> InitialMinval, pos |-> InitialMinpos]
  /\ ullh_min = [val |-> InitialMinval, pos |-> InitialMinpos]

\* the bins with an observed count > 0
OccupiedBins == {b \in 0 .. Nbins - 1 : yExp[b] > 0}

\* C22: for every tau hypothesis of the scan the chi-square sum has a term exactly for
\* the bins with observed count > 0, so no term divides by zero, and the binned
\* likelihood sum has a term for every one of the Nbins bins, empty or not.
C22_TermsPerBin ==
  notebook = "Likelihood" =>
     /\ Len(termLog) = itau
     /\ \A k \in DOMAIN termLog :
          /\ termLog[k].chi2 = OccupiedBins
          /\ \A b \in termLog[k].chi2 : yExp[b] # 0
          /\ termLog[k].bllh = 0 .. Nbins - 1

\* a completed scan of a histogram with an occupied and an empty bin
C22_Witness ==
  /\ ScanComplete
  /\ Len(termLog) = Ntau_steps + 1
  /\ OccupiedBins # {} /\ OccupiedBins # 0 .. Nbins - 1
  /\ termLog[1].chi2 = OccupiedBins /\ termLog[1].bllh = 0 .. Nbins - 1
  /\ IsFinite(chi2_arr[0])

\* C23: in the +-1 sigma scan of chi2, whenever both scan end points lie more than 1
\* above the chi-square minimum, tau_lower and tau_upper are assigned before they are
\* printed and tau_lower <= chi2_minpos <= tau_upper, so both reported error sizes are
\* non-negative; otherwise an error message is printed and neither is reported.
C23_ErrorsReported ==
  (notebook = "Likelihood" /\ errScan.state # "not run") =>
     IF EndPointsAbove
     THEN /\ errScan.state = "printed"
          /\ RLeq(errScan.tau_lower, chi2_min.pos) /\ RLeq(chi2_min.pos, errScan.tau_upper)
          /\ errScan.lower_error.n >= 0 /\ errScan.upper_error.n >= 0
     ELSE errScan.state = "error message"

\* whenever some chi2 value of the scan is below the initial minval, the +-1 sigma scan
\* reports as C23 says
C23_ReportedWhenBelowInitial ==
  (notebook = "Likelihood" /\ errScan.state # "not run"
     /\ \E i \in ScanPoints : NpLess(chi2_arr[i], InitialMinval)) =>
     IF EndPointsAbove
     THEN /\ errScan.state = "printed"
          /\ RLeq(errScan.tau_lower, chi2_min.pos) /\ RLeq(chi2_min.pos, errScan.tau_upper)
          /\ errScan.lower_error.n >= 0 /\ errScan.upper_error.n >= 0
     ELSE errScan.state = "error message"

\* a scan whose end points lie more than 1 above the minimum: the errors are printed
C23_Printed ==
  /\ errScan.state = "printed" /\ EndPointsAbove
  /\ RLess(errScan.tau_lower, errScan.tau_upper)

\* a scan whose minimum is at an end point: the error message is printed
C23_ErrorMessage == errScan.state = "error message" /\ ~EndPointsAbove

\* a scan in which chi2_minval still is 999999.9 and every chi2 value is more than 1
\* above it: tau_lower is read without having been assigned
C23_NameError ==
  /\ errScan.state = "NameError" /\ errScan.name = "tau_lower" /\ error = "NameError"
  /\ EndPointsAbove
  /\ chi2_min.val = InitialMinval

\* C24: for every tau, chisquare(tau) returns the value the tau scan computes for chi2
\* at that tau: the sum of (nobs - nexp)^2 / nobs with
\* nexp = Ntimes*(exp(-xlow/tau) - exp(-xhigh/tau)) over exactly the bins with nobs > 0.
C24_ChisquareEqualsScan ==
  (notebook = "Likelihood" /\ fval_fit.state = "returned") =>
     LET scan == BinLoop(Ntimes, yExp, xExp_edges, fval_fit.tau_fitted, Nbins)
     IN  /\ \A k \in ScanPoints : tau[k] = fval_fit.tau_fitted => fval_fit.value = chi2_arr[k]
         /\ fval_fit.value = scan.chi2.v
         /\ scan.chi2Bins = OccupiedBins

\* chisquare called at the second scan point of a histogram whose last bin is occupied
C24_Witness ==
  /\ fval_fit.state = "returned"
  /\ fval_fit.tau_fitted = tau[1]
  /\ fval_fit.value = chi2_arr[1]
  /\ yExp[Nbins - 1] > 0
  /\ fval_fit.value.n > 0 /\ IsFinite(fval_fit.value)

(***************************************************************************)
(* The cells of the likelihood notebook and the names they read and        *)
(* assign.  Every code cell with source is listed, in notebook order, with *)
(* the lines of its source in the notebook file.  A cell is a sequence of  *)
(* steps: a top-level "if <flag>:" statement is a step guarded by the name *)
(* of the flag, and the statements between two such are one unguarded      *)
(* step.  A step reads the global names it loads before assigning them     *)
(* (the globals read by the body of a function it defines included) and    *)
(* writes the names it assigns, imports or defines.  Python builtins and   *)
(* the kernel's __IPYTHON__ are always defined and are left out, so the    *)
(* last cell (try: __IPYTHON__) reads nothing.  The body of a guarded     *)
(* step runs only when the flag is true.  The first read of a name that    *)
(* is not assigned raises NameError and ends the run of the notebook.      *)
(***************************************************************************)
Cells == <<
  [lines |-> <<53, 59>>, steps |-> <<
     [guard |-> "",
      reads |-> {},
      writes |-> {"np", "plt", "sns", "Minuit", "BinnedLH", "Chi2Regression", "Extended", "sys",
                  "stats"}]>>],
  [lines |-> <<68, 71>>, steps |-> <<
     [guard |-> "",
      reads |-> {"sys", "plt"},
      writes |-> {"nice_string_output", "add_text_to_ax"}]>>],
  [lines |-> <<87, 104>>, steps |-> <<
     [guard |-> "",
      reads |-> {"np"},
      writes |-> {"save_plots", "verbose", "veryverbose", "ScanChi2", "Ntimes", "tau_truth",
                  "Nbins", "tmax", "dt", "r"}]>>],
  [lines |-> <<121, 123>>, steps |-> <<
     [guard |-> "",
      reads |-> {"r", "tau_truth", "Ntimes", "np", "Nbins", "tmax"},
      writes |-> {"t", "yExp", "xExp_edges"}]>>],
  [lines |-> <<141, 146>>, steps |-> <<
     [guard |-> "veryverbose",
      reads |-> {"t"},
      writes |-> {"index", "time"}]>>],
  [lines |-> <<162, 164>>, steps |-> <<
     [guard |-> "",
      reads |-> {"xExp_edges", "plt", "yExp"},
      writes |-> {"X_center"}]>>],
  [lines |-> <<190, 196>>, steps |-> <<
     [guard |-> "",
      reads |-> {},
      writes |-> {"Ntau_steps", "min_tau", "max_tau", "delta_tau"}]>>],
  [lines |-> <<205, 211>>, steps |-> <<
     [guard |-> "",
      reads |-> {},
      writes |-> {"chi2_minval", "chi2_minpos", "bllh_minval", "bllh_minpos", "ullh_minval",
                  "ullh_minpos"}]>>],
  [lines |-> <<220, 223>>, steps |-> <<
     [guard |-> "",
      reads |-> {"np", "Ntau_steps"},
      writes |-> {"tau", "chi2", "bllh", "ullh"}]>>],
  [lines |-> <<232, 274>>, steps |-> <<
     [guard |-> "",
      reads |-> {"Ntau_steps", "min_tau", "delta_tau", "tau", "chi2", "bllh", "Nbins",
                 "xExp_edges", "Ntimes", "np", "yExp", "stats", "veryverbose", "ullh", "t",
                 "verbose", "chi2_minval", "bllh_minval", "ullh_minval"},
      writes |-> {"itau", "tau_hypo", "ibin", "xlow_bin", "xhigh_bin", "nexp", "nobs", "time",
                  "chi2_minval", "chi2_minpos", "bllh_minval", "bllh_minpos", "ullh_minval",
                  "ullh_minpos"}]>>],
  [lines |-> <<283, 283>>, steps |-> <<
     [guard |-> "",
      reads |-> {"chi2_minpos", "bllh_minpos", "ullh_minpos"},
      writes |-> {}]>>],
  [lines |-> <<301, 303>>, steps |-> <<
     [guard |-> "",
      reads |-> {},
      writes |-> {"min_fit", "max_fit"}]>>],
  [lines |-> <<312, 343>>, steps |-> <<
     [guard |-> "",
      reads |-> {"plt", "tau", "chi2", "chi2_minpos", "min_fit", "max_fit", "bllh",
                 "bllh_minpos", "ullh", "ullh_minpos"},
      writes |-> {"fig", "axes", "ax_chi2", "ax_bllh", "ax_ullh"}]>>],
  [lines |-> <<364, 366>>, steps |-> <<
     [guard |-> "",
      reads |-> {"np"},
      writes |-> {"func_para", "func_para_vec"}]>>],
  [lines |-> <<388, 393>>, steps |-> <<
     [guard |-> "",
      reads |-> {"np"},
      writes |-> {"func_asympara", "func_asympara_vec"}]>>],
  [lines |-> <<409, 420>>, steps |-> <<
     [guard |-> "",
      reads |-> {"tau", "chi2_minpos", "min_fit", "max_fit", "Chi2Regression", "func_para",
                 "chi2", "Minuit", "chi2_minval", "func_asympara"},
      writes |-> {"indexes", "chi2_object_chi2", "minuit_chi2", "chi2_object_chi2_doublep",
                  "minuit_chi2_doublep"}]>>],
  [lines |-> <<429, 429>>, steps |-> <<
     [guard |-> "",
      reads |-> {"minuit_chi2_doublep"},
      writes |-> {}]>>],
  [lines |-> <<438, 456>>, steps |-> <<
     [guard |-> "",
      reads |-> {"minuit_chi2", "minuit_chi2_doublep", "np", "chi2_minpos", "min_fit", "max_fit",
                 "func_para_vec", "ax_chi2", "nice_string_output", "add_text_to_ax", "fig"},
      writes |-> {"minval", "minpos", "quadratic", "minval_2p", "minpos_2p", "quadlow_2p",
                  "quadhigh_2p", "x_fit", "y_fit_simple", "d", "text"}]>>],
  [lines |-> <<465, 470>>, steps |-> <<
     [guard |-> "",
      reads |-> {"np", "quadratic"},
      writes |-> {"err"}]>>],
  [lines |-> <<479, 480>>, steps |-> <<
     [guard |-> "",
      reads |-> {"ax_chi2", "minval"},
      writes |-> {}]>>],
  [lines |-> <<489, 496>>, steps |-> <<
     [guard |-> "",
      reads |-> {"ax_chi2", "minpos", "err", "minval"},
      writes |-> {}]>>],
  [lines |-> <<505, 505>>, steps |-> <<
     [guard |-> "",
      reads |-> {"minpos", "err"},
      writes |-> {}]>>],
  [lines |-> <<514, 515>>, steps |-> <<
     [guard |-> "",
      reads |-> {"plt"},
      writes |-> {}]>>],
  [lines |-> <<526, 527>>, steps |-> <<
     [guard |-> "save_plots",
      reads |-> {"fig_chi2"},
      writes |-> {}]>>],
  [lines |-> <<536, 554>>, steps |-> <<
     [guard |-> "ScanChi2",
      reads |-> {"chi2", "chi2_minval", "Ntau_steps", "tau", "chi2_minpos"},
      writes |-> {"found_lower", "found_upper", "itau", "tau_lower", "tau_upper"}]>>],
  [lines |-> <<572, 578>>, steps |-> <<
     [guard |-> "",
      reads |-> {"plt"},
      writes |-> {"fig_bllh", "ax_bllh"}]>>],
  [lines |-> <<589, 591>>, steps |-> <<
     [guard |-> "",
      reads |-> {"ax_bllh", "tau", "bllh", "chi2_minpos", "min_fit", "max_fit"},
      writes |-> {}]>>],
  [lines |-> <<600, 604>>, steps |-> <<
     [guard |-> "",
      reads |-> {"tau", "bllh_minpos", "min_fit", "max_fit", "Chi2Regression", "func_asympara",
                 "bllh", "Minuit", "bllh_minval", "Ntimes"},
      writes |-> {"indexes", "chi2_object_bllh", "minuit_bllh"}]>>],
  [lines |-> <<613, 617>>, steps |-> <<
     [guard |-> "",
      reads |-> {"minuit_bllh", "np", "bllh_minpos", "min_fit", "max_fit", "func_asympara_vec",
                 "ax_bllh"},
      writes |-> {"minval", "minpos", "quadlow", "quadhigh", "x_fit", "y_fit_simple"}]>>],
  [lines |-> <<626, 640>>, steps |-> <<
     [guard |-> "",
      reads |-> {"Nbins", "yExp", "xExp_edges", "Ntimes", "np", "minpos", "chi2_object_bllh",
                 "stats"},
      writes |-> {"chisquare", "fval_fit", "ndof_fit", "prob_fit"}]>>],
  [lines |-> <<649, 657>>, steps |-> <<
     [guard |-> "",
      reads |-> {"fval_fit", "ndof_fit", "prob_fit", "minuit_bllh", "ax_bllh",
                 "nice_string_output", "ax_chi2"},
      writes |-> {"names", "values"}]>>],
  [lines |-> <<666, 667>>, steps |-> <<
     [guard |-> "",
      reads |-> {"ax_bllh", "bllh_minval"},
      writes |-> {}]>>],
  [lines |-> <<676, 677>>, steps |-> <<
     [guard |-> "",
      reads |-> {"plt"},
      writes |-> {}]>>],
  [lines |-> <<686, 687>>, steps |-> <<
     [guard |-> "SavePlots",
      reads |-> {"fig_bllh"},
      writes |-> {}]>>],
  [lines |-> <<703, 709>>, steps |-> <<
     [guard |-> "",
      reads |-> {"plt"},
      writes |-> {"fig_ullh", "ax_ullh"}]>>],
  [lines |-> <<720, 722>>, steps |-> <<
     [guard |-> "",
      reads |-> {"ax_ullh", "tau", "ullh", "chi2_minpos", "min_fit", "max_fit"},
      writes |-> {}]>>],
  [lines |-> <<731, 735>>, steps |-> <<
     [guard |-> "",
      reads |-> {"tau", "ullh_minpos", "min_fit", "max_fit", "Chi2Regression", "func_asympara",
                 "ullh", "Minuit", "ullh_minval", "Ntimes"},
      writes |-> {"indexes", "chi2_object_ullh", "minuit_ullh"}]>>],
  [lines |-> <<744, 748>>, steps |-> <<
     [guard |-> "",
      reads |-> {"minuit_ullh", "np", "ullh_minpos", "min_fit", "max_fit", "func_asympara_vec",
                 "ax_ullh"},
      writes |-> {"minval", "minpos", "quadlow", "quadhigh", "x_fit", "y_fit_simple"}]>>],
  [lines |-> <<757, 760>>, steps |-> <<
     [guard |-> "",
      reads |-> {"chisquare", "minpos", "chi2_object_ullh", "stats"},
      writes |-> {"fval_fit", "ndof_fit", "prob_fit"}]>>],
  [lines |-> <<769, 777>>, steps |-> <<
     [guard |-> "",
      reads |-> {"fval_fit", "ndof_fit", "prob_fit", "minuit_ullh", "ax_ullh",
                 "nice_string_output", "ax_chi2"},
      writes |-> {"names", "values"}]>>],
  [lines |-> <<786, 787>>, steps |-> <<
     [guard |-> "",
      reads |-> {"ax_ullh", "ullh_minval"},
      writes |-> {}]>>],
  [lines |-> <<796, 797>>, steps |-> <<
     [guard |-> "",
      reads |-> {"plt"},
      writes |-> {}]>>],
  [lines |-> <<806, 807>>, steps |-> <<
     [guard |-> "SavePlots",
      reads |-> {"fig_ullh"},
      writes |-> {}]>>],
  [lines |-> <<837, 840>>, steps |-> <<
     [guard |-> "",
      reads |-> {"np"},
      writes |-> {"func_exp"}]>>],
  [lines |-> <<849, 853>>, steps |-> <<
     [guard |-> "",
      reads |-> {"plt"},
      writes |-> {"fig_fit", "ax_fit"}]>>],
  [lines |-> <<862, 866>>, steps |-> <<
     [guard |-> "",
      reads |-> {"yExp", "xExp_edges", "np", "ax_fit"},
      writes |-> {"indexes", "xExp", "syExp"}]>>],
  [lines |-> <<875, 879>>, steps |-> <<
     [guard |-> "",
      reads |-> {"Chi2Regression", "func_exp", "xExp", "indexes", "yExp", "syExp", "Minuit",
                 "min_tau", "max_tau", "tau_truth", "Ntimes"},
      writes |-> {"chi2_object_fit", "minuit_fit_chi2"}]>>],
  [lines |-> <<888, 892>>, steps |-> <<
     [guard |-> "",
      reads |-> {"minuit_fit_chi2", "np", "func_exp", "ax_fit"},
      writes |-> {"N0", "tau_fit_chi2", "x_fit", "y_fit_simple"}]>>],
  [lines |-> <<901, 905>>, steps |-> <<
     [guard |-> "",
      reads |-> {"BinnedLH", "func_exp", "t", "Nbins", "tmax", "Minuit", "min_tau", "max_tau",
                 "tau_truth", "Ntimes"},
      writes |-> {"bllh_object_fit", "minuit_fit_bllh"}]>>],
  [lines |-> <<914, 918>>, steps |-> <<
     [guard |-> "",
      reads |-> {"minuit_fit_bllh", "np", "func_exp", "ax_fit"},
      writes |-> {"N0", "tau_fit_bllh", "x_fit", "y_fit_simple"}]>>],
  [lines |-> <<929, 939>>, steps |-> <<
     [guard |-> "",
      reads |-> {"minuit_fit_chi2", "indexes", "stats", "chisquare", "tau_fit_bllh"},
      writes |-> {"fval_fit_chi2", "ndof_fit_chi2", "prob_fit_chi2", "fval_fit_bllh",
                  "ndof_fit_bllh", "prob_fit_bllh"}]>>],
  [lines |-> <<950, 962>>, steps |-> <<
     [guard |-> "",
      reads |-> {"fval_fit_chi2", "ndof_fit_chi2", "prob_fit_chi2", "minuit_fit_chi2",
                 "nice_string_output", "fval_fit_bllh", "ndof_fit_bllh", "prob_fit_bllh",
                 "minuit_fit_bllh", "ax_fit"},
      writes |-> {"string", "names", "values"}]>>],
  [lines |-> <<971, 973>>, steps |-> <<
     [guard |-> "",
      reads |-> {"ax_fit"},
      writes |-> {}]>>],
  [lines |-> <<982, 982>>, steps |-> <<
     [guard |-> "",
      reads |-> {"plt"},
      writes |-> {}]>>],
  [lines |-> <<991, 992>>, steps |-> <<
     [guard |-> "",
      reads |-> {"plt"},
      writes |-> {}]>>],
  [lines |-> <<1001, 1001>>, steps |-> <<
     [guard |-> "SavePlots",
      reads |-> {"fig_fit"},
      writes |-> {}]>>],
  [lines |-> <<1010, 1014>>, steps |-> <<
     [guard |-> "",
      reads |-> {},
      writes |-> {}]>>]
>>

\* the flags assigned by the program settings
FlagNames == {"save_plots", "verbose", "veryverbose", "ScanChi2"}

\* the names of the figures of the notebook
FigureNames == {"fig", "fig_chi2", "fig_bllh", "fig_ullh", "fig_fit"}

\* the steps of one cell from step k on, run with the names assigned so far
RECURSIVE RunSteps(_, _, _)
RunSteps(steps, k, assigned) ==
  IF k > Len(steps) THEN [names |-> assigned, unassigned |-> {}]
  ELSE LET step == steps[k]
       IN  IF step.guard # "" /\ step.guard \notin assigned
           THEN [names |-> assigned, unassigned |-> {step.guard}]
           ELSE IF step.guard # "" /\ ~flags[step.guard]
           THEN RunSteps(steps, k + 1, assigned)
           ELSE IF step.reads \subseteq assigned
           THEN RunSteps(steps, k + 1, assigned \cup step.writes)
           ELSE [names |-> assigned, unassigned |-> step.reads \ assigned]

InitCells ==
  /\ notebook = "Likelihood"
  /\ pc = "cells"
  /\ rng = FreshRng(1)
  /\ tape = [st \in Streams |-> EntropyStream(1)]
  /\ drawLog = <<>>
  /\ LoopUnbound
  /\ TableUnbound
  /\ PolynomialUnbound
  /\ FunctionsUnbound
  /\ LikelihoodUnbound
  /\ cell = 0
  /\ names = {}
  /\ flags \in [FlagNames -> BOOLEAN]
  /\ unassigned = {}

\* the next cell of the notebook is executed
RunCell ==
  /\ pc = "cells"
  /\ cell < Len(Cells)
  /\ LET result == RunSteps(Cells[cell + 1].steps, 1, names)
     IN  /\ names' = result.names
         /\ unassigned' = result.unassigned
         /\ IF result.unassigned # {}
            THEN cell' = cell /\ pc' = "raised" /\ error' = "NameError"
            ELSE /\ cell' = cell + 1
                 /\ pc' = IF cell + 1 = Len(Cells) THEN "done" ELSE "cells"
                 /\ error' = error
  /\ UNCHANGED <<settings, functions, likelihood, table, polynomial, run, rng, tape, iexp,
                 dataset, ana, num, arrays, stdout, inexact, history, migradBias, prevBatch,
                 flags>>

NextCells == RunCell

SpecCells == InitCells /\ [][NextCells]_vars

\* the steps of all cells
AllSteps == UNION {{Cells[c].steps[k] : k \in DOMAIN Cells[c].steps} : c \in DOMAIN Cells}

\* the guarded steps whose body is "fig_....savefig(...)"
PlotSavingSteps ==
  {step \in AllSteps : step.guard # "" /\ step.reads # {} /\ step.reads \subseteq FigureNames}

\* the settings as the notebook assigns them (lines 87-91)
DefaultFlags ==
  [save_plots |-> FALSE, verbose |-> TRUE, veryverbose |-> TRUE, ScanChi2 |-> TRUE]

\* C28: executing the cells of the likelihood notebook top to bottom with the default
\* settings never reads a name that was not assigned by an earlier cell, and every
\* plot-saving guard executed reads the save_plots flag of the program settings.
C28_NoUnassignedRead ==
  (notebook = "Likelihood" /\ flags = DefaultFlags) =>
     /\ unassigned = {} /\ error # "NameError"
     /\ \A c \in 1 .. cell : \A k \in DOMAIN Cells[c].steps :
          Cells[c].steps[k] \in PlotSavingSteps => Cells[c].steps[k].guard = "save_plots"

\* with the default settings the run stops at the cell of line 686, the 34th with
\* source, which reads SavePlots
C28_SavePlotsUnassigned ==
  /\ flags = DefaultFlags
  /\ pc = "raised" /\ error = "NameError"
  /\ unassigned = {"SavePlots"}
  /\ cell = 33 /\ Cells[cell + 1].lines[1] = 686
  /\ "save_plots" \in names

\* with save_plots = True the run stops at the cell of line 526, which reads fig_chi2
C28_FigChi2Unassigned ==
  /\ flags.save_plots
  /\ pc = "raised" /\ error = "NameError"
  /\ unassigned = {"fig_chi2"}
  /\ Cells[cell + 1].lines[1] = 526

\* before the first plot-saving guard no cell reads an unassigned name
C28_AssignedBeforePlotSaving ==
  (notebook = "Likelihood" /\ pc = "cells" /\ cell < Len(Cells) /\ Cells[cell + 1].lines[1] < 526) =>
     RunSteps(Cells[cell + 1].steps, 1, names).unassigned = {}

====
